---- MODULE Spec2Model ----
(***************************************************************************)
(* Model of the audio relay of im-ansh/rizzler.                            *)
(*                                                                         *)
(* Part 1 (specification Spec): one relay session of src/server.js, the    *)
(* closure created by wss.on("connection").  The session's state is the    *)
(* closure's variables, the upstream sockets it has created (each keeps    *)
(* the handlers the closure registered on it) and its pending timers.      *)
(* What a handler sends is observed per step: clientOut and upstreamOut    *)
(* hold what the handler that ran last put on the client connection and    *)
(* on the upstream sockets, lastOp names that handler and its input.       *)
(*                                                                         *)
(* Part 2 (specification ClientSpec): one LiveChatClient of                *)
(* src/lib/websocket-client.js and of src/unnamed/part_002.                *)
(*                                                                         *)
(* Part 3 (specification DetectorSpec): the speech detector of the         *)
(* conversation page, startInstantRealtimeMonitoring and                   *)
(* startSimplifiedMonitoring, with their timers and endConversation.       *)
(*                                                                         *)
(* Part 4 (specifications PcmSpec, FramingSpec): the sample conversions of *)
(* the audio path, applied to arguments drawn from bounded sets.           *)
(*                                                                         *)
(* Part 5 (specification HttpSpec): the POST handlers of the HTTP routes,  *)
(* applied to requests drawn from a bounded set.                           *)
(*                                                                         *)
(* Part 6 (specification SessionsSpec): two connections to the relay, each *)
(* with the closure variables of its own run of the connection callback.   *)
(*                                                                         *)
(* Part 7 (specification BeliefSpec): the session of Part 1 together with  *)
(* the message handler of a connected LiveChatClient.                      *)
(*                                                                         *)
(* Part 8 (specifications ApiSpec, ConnectFairSpec): the client of Part 2  *)
(* with its sending methods and the events of a relay, and with a socket   *)
(* that closes before it opens.                                            *)
(***************************************************************************)
EXTENDS Integers, Sequences, FiniteSets, TLC

VARIABLES
  hasKey,               \* process.env.GEMINI_API_KEY is set
  clientState,          \* clientWs.readyState; "connecting" = handler not yet run
  handlersRegistered,   \* clientWs.on("message") / on("close") were registered
  geminiWs,             \* the closure's geminiWs: 0 (null) or a socket id
  sock,                 \* readyState of every upstream socket created so far
  firstSent,            \* kind of the first message put on each upstream socket
  isGeminiConnected,    \* closure variable
  sessionConfigured,    \* closure variable
  conversationContext,  \* closure variable: the turns kept for the text path
  readyTimers,          \* pending setTimeout(.., 500) of configureGeminiSession
  reconnectTimers,      \* pending setTimeout(connectToGemini, 2000)
  textTimers,           \* pending setTimeout(.., 2000) of handleGeminiMessage
  clientMsgs,           \* number of client frames handled so far
  upstreamMsgs,         \* number of upstream messages handled so far
  lastOp,               \* the handler that ran last, and its input
  clientOut,            \* what that handler delivered to the client
  upstreamOut,          \* what that handler delivered to upstream sockets
  variant,              \* which LiveChatClient: "lib" or "part002"
  this_ws,              \* this.ws: 0 (null) or a socket id
  this_isConnected,     \* this.isConnected
  this_isGeminiConnected, \* this.isGeminiConnected
  this_useEventSource,  \* this.useEventSource
  this_reconnectAttempts, \* this.reconnectAttempts
  wsock,                \* every WebSocket the client created: its state, who
                        \* created it, its connect timeout, its promise
  reconnectPending,     \* pending reconnect timers of onclose
  fetches,              \* connectFallback calls awaiting fetch, by caller
  fallbackTimers,       \* pending timers of connectFallback
  connectCalls,         \* number of connect() calls of the application
  delaysSinceOpen,      \* delays of the reconnects armed since the last open
  clientOp,             \* the client handler that ran last, and its input
  appOut,               \* the application callbacks that handler invoked
  armed,                \* that handler armed a reconnect timer
  speechDetected,       \* React state of the conversation page
  closureSpeechDetected, \* speechDetected as the running checkAudioLevel sees it
  silenceTimeoutRef,    \* silenceTimeoutRef.current is not null
  silenceTimerPending,  \* the timer it names has neither fired nor been cleared
  responseTimers,       \* pending setTimeout(generateInstantResponse, 500)
  monitor,              \* which monitor the page starts
  isStreamingRef,       \* isStreamingRef.current
  monitoringRef,        \* monitoringRef.current
  frameScheduled,       \* a requestAnimationFrame(checkAudioLevel) is pending
  quietRun,             \* samples at or below the threshold since the last one above
  detOp,                \* the detector callback that ran last, its input, and
                        \* the parity of the number of samples handled
  fnIn,                 \* the argument of the conversion under study
  fnOut,                \* what the conversion returned
  fnOp,                 \* the conversion that ran
  sessions,             \* the closure variables of every connection callback
  sessionOp,            \* the connection whose handler ran last, and the handler
  sessionOut,           \* the sockets that handler sent on
  wsSent,               \* what the LiveChatClient method called last put on this.ws
  simTimers             \* pending timers of the client's simulated responses

relayVars == <<hasKey, clientState, handlersRegistered, geminiWs, sock, firstSent,
               isGeminiConnected, sessionConfigured, conversationContext,
               readyTimers, reconnectTimers, textTimers, clientMsgs, upstreamMsgs,
               lastOp, clientOut, upstreamOut>>

clientVars == <<variant, this_ws, this_isConnected, this_isGeminiConnected,
                this_useEventSource, this_reconnectAttempts, wsock, reconnectPending,
                fetches, fallbackTimers, connectCalls, delaysSinceOpen, clientOp,
                appOut, armed>>

detVars == <<monitor, speechDetected, closureSpeechDetected, silenceTimeoutRef,
             silenceTimerPending, responseTimers, isStreamingRef, monitoringRef,
             frameScheduled, quietRun, detOp>>

fnVars == <<fnIn, fnOut, fnOp>>
sessVars == <<sessions, sessionOp, sessionOut>>
apiVars == <<wsSent, simTimers>>

nonRelayVars == <<clientVars, detVars, fnVars, sessVars, apiVars>>
nonClientVars == <<relayVars, detVars, fnVars, sessVars, apiVars>>
nonDetVars == <<relayVars, clientVars, fnVars, sessVars, apiVars>>
nonFnVars == <<relayVars, clientVars, detVars, sessVars, apiVars>>
nonSessVars == <<relayVars, clientVars, detVars, fnVars, apiVars>>

vars == <<relayVars, clientVars, detVars, fnVars, sessVars, apiVars>>

(***************************************************************************)
(* Bounds of the exploration.                                              *)
(***************************************************************************)
MaxSockets == 2
MaxClientMsgs == 3
MaxUpstreamMsgs == 2
MaxClientSockets == 6
MaxConnectCalls == 1
MaxQuietRun == 6
MaxResponseTimers == 2
MaxSamples == 2
MaxSessionMsgs == 2
MaxSimTimers == 1
MaxFallbackTimers == 1

(***************************************************************************)
(* Constants of the source.                                                *)
(***************************************************************************)
MinBinaryLength == 100
ContextLimit == 8
NormalClosure == 1000
LibMaxReconnectAttempts == 3
LibReconnectDelay == 2000
Part002MaxReconnectAttempts == 5
Part002ReconnectDelay == 1000
Int16Max == 32767
FullScale == 32768
ChunkMinAudioLength == 100
SpeechMinAudioLength == 50

SockIds == 1..MaxSockets
NumSockets == Cardinality({s \in SockIds : sock[s] # "none"})

(***************************************************************************)
(* Inputs.  A client frame is a binary or a text frame, reaches the        *)
(* handler as a Buffer or not, has a length, and a body: what JSON.parse   *)
(* and message.type make of it.  ws hands a binary frame over as a Buffer; *)
(* a text frame as a string before version 8 and as a Buffer from 8 on.    *)
(***************************************************************************)
Bodies == {"invalid", "connect", "audio", "audio_nodata", "text", "text_nodata", "other"}
FrameLengths == {MinBinaryLength, MinBinaryLength + 1}
Frames ==
  {f \in [binary : BOOLEAN, isBuffer : BOOLEAN, length : FrameLengths, body : Bodies] :
     f.binary => f.isBuffer}

\* candidates[0].content.parts of an upstream message: each part carries
\* text, audio/pcm inline data, both, or neither.
PartLists ==
  {<<>>, <<"none">>, <<"text">>, <<"audio">>, <<"both">>,
   <<"text", "audio">>, <<"audio", "text">>}
UpstreamMessages ==
  {[valid |-> FALSE, parts |-> <<>>, error |-> FALSE]}
  \cup [valid : {TRUE}, parts : PartLists, error : BOOLEAN]

CloseCodes == {NormalClosure, 1005, 1006}
\* The codes a close event can carry, by the state the socket is in.
CloseCodesOf(state) ==
  CASE state = "open" -> {NormalClosure, 1006}
    [] state = "closing" -> {1005, 1006}
    [] state = "errored" -> {1006}
    [] OTHER -> {}

(***************************************************************************)
(* The ws library.  send() throws on a CONNECTING socket, delivers on an   *)
(* OPEN one and drops silently on a CLOSING or CLOSED one.  close() on a   *)
(* CONNECTING socket aborts the handshake (error, then close follow).      *)
(***************************************************************************)
Event(type, data) == [type |-> type, data |-> data]
ClientSend(out, state, ev) == IF state = "open" THEN Append(out, ev) ELSE out
SendThrows(state) == state = "connecting"
UpstreamSend(g, state, msg) ==
  IF state = "open" THEN <<[sock |-> g, msg |-> msg]>> ELSE <<>>

RECURSIVE NoteFirst(_, _)
NoteFirst(first, out) ==
  IF out = <<>> THEN first
  ELSE LET g == Head(out).sock
       IN NoteFirst(IF first[g] = "none" THEN [first EXCEPT ![g] = Head(out).msg.kind]
                    ELSE first,
                    Tail(out))

AfterClose(state) ==
  CASE state = "connecting" -> "aborted"
    [] state = "open" -> "closing"
    [] OTHER -> state

(***************************************************************************)
(* The session before wss.on("connection") runs its callback.              *)
(***************************************************************************)
RelayInit ==
  /\ hasKey \in BOOLEAN
  /\ clientState = "connecting"
  /\ handlersRegistered = FALSE
  /\ geminiWs = 0
  /\ sock = [s \in SockIds |-> "none"]
  /\ firstSent = [s \in SockIds |-> "none"]
  /\ isGeminiConnected = FALSE
  /\ sessionConfigured = FALSE
  /\ conversationContext = <<>>
  /\ readyTimers = 0
  /\ reconnectTimers = 0
  /\ textTimers = <<>>
  /\ clientMsgs = 0
  /\ upstreamMsgs = 0
  /\ lastOp = [op |-> "init", arg |-> 0]
  /\ clientOut = <<>>
  /\ upstreamOut = <<>>

\* The connection callback without the early return of the missing-key branch.
Connection_NoReturn ==
  /\ clientState = "connecting"
  /\ handlersRegistered' = TRUE
  /\ IF ~hasKey
     THEN /\ clientState' = "closing"
          /\ clientOut' = ClientSend(ClientSend(<<>>, "open", Event("error", "config")),
                                     "closing", Event("status", "initial"))
     ELSE /\ clientState' = "open"
          /\ clientOut' = ClientSend(<<>>, "open", Event("status", "initial"))
  /\ upstreamOut' = <<>>
  /\ lastOp' = [op |-> "connection", arg |-> 0]
  /\ UNCHANGED nonRelayVars
  /\ UNCHANGED <<hasKey, geminiWs, sock, firstSent, isGeminiConnected, sessionConfigured,
                 conversationContext, readyTimers, reconnectTimers, textTimers,
                 clientMsgs, upstreamMsgs>>

\* The connection callback without the send of the initial status.
Connection_NoStatus ==
  /\ clientState = "connecting"
  /\ IF ~hasKey
     THEN /\ clientOut' = ClientSend(<<>>, "open", Event("error", "config"))
          /\ clientState' = "closing"
          /\ UNCHANGED handlersRegistered
     ELSE /\ handlersRegistered' = TRUE
          /\ clientState' = "open"
          /\ clientOut' = <<>>
  /\ upstreamOut' = <<>>
  /\ lastOp' = [op |-> "connection", arg |-> 0]
  /\ UNCHANGED nonRelayVars
  /\ UNCHANGED <<hasKey, geminiWs, sock, firstSent, isGeminiConnected, sessionConfigured,
                 conversationContext, readyTimers, reconnectTimers, textTimers,
                 clientMsgs, upstreamMsgs>>

\* wss.on("connection"): without a key, one error event, close, return;
\* otherwise the handlers are registered and the initial status is sent.
Connection ==
  /\ clientState = "connecting"
  /\ IF ~hasKey
     THEN /\ clientOut' = ClientSend(<<>>, "open", Event("error", "config"))
          /\ clientState' = "closing"
          /\ UNCHANGED handlersRegistered
     ELSE /\ handlersRegistered' = TRUE
          /\ clientState' = "open"
          /\ clientOut' = ClientSend(<<>>, "open", Event("status", "initial"))
  /\ upstreamOut' = <<>>
  /\ lastOp' = [op |-> "connection", arg |-> 0]
  /\ UNCHANGED nonRelayVars
  /\ UNCHANGED <<hasKey, geminiWs, sock, firstSent, isGeminiConnected, sessionConfigured,
                 conversationContext, readyTimers, reconnectTimers, textTimers,
                 clientMsgs, upstreamMsgs>>

\* connectToGemini: a new socket, assigned to geminiWs whatever it held.
connectToGemini ==
  /\ NumSockets < MaxSockets
  /\ sock' = [sock EXCEPT ![NumSockets + 1] = "connecting"]
  /\ geminiWs' = NumSockets + 1

Setup == [kind |-> "setup", data |-> 0]

\* configureGeminiSession marking the session configured without sending.
configureGeminiSession_NoSend ==
  /\ upstreamOut' = <<>>
  /\ sessionConfigured' = TRUE
  /\ readyTimers' = readyTimers + 1

\* configureGeminiSession without the setTimeout that announces readiness.
configureGeminiSession_NoTimer ==
  IF SendThrows(sock'[geminiWs])
  THEN /\ upstreamOut' = <<>>
       /\ UNCHANGED <<sessionConfigured, readyTimers>>
  ELSE /\ upstreamOut' = UpstreamSend(geminiWs, sock'[geminiWs], Setup)
       /\ sessionConfigured' = TRUE
       /\ UNCHANGED readyTimers

\* configureGeminiSession: sends setup on the CURRENT geminiWs; a throw of
\* send() skips the flag and the timer.
configureGeminiSession ==
  IF SendThrows(sock'[geminiWs])
  THEN /\ upstreamOut' = <<>>
       /\ UNCHANGED <<sessionConfigured, readyTimers>>
  ELSE /\ upstreamOut' = UpstreamSend(geminiWs, sock'[geminiWs], Setup)
       /\ sessionConfigured' = TRUE
       /\ readyTimers' = readyTimers + 1

\* The "open" handler registered on socket s.
UpstreamOpen(s) ==
  /\ sock[s] = "connecting"
  /\ sock' = [sock EXCEPT ![s] = "open"]
  /\ isGeminiConnected' = TRUE
  /\ configureGeminiSession
  /\ firstSent' = NoteFirst(firstSent, upstreamOut')
  /\ clientOut' = ClientSend(<<>>, clientState, Event("status", "connected"))
  /\ lastOp' = [op |-> "upstreamOpen", arg |-> s]
  /\ UNCHANGED nonRelayVars
  /\ UNCHANGED <<hasKey, clientState, handlersRegistered, geminiWs, conversationContext,
                 reconnectTimers, textTimers, clientMsgs, upstreamMsgs>>

HasText(part) == part \in {"text", "both"}
HasAudio(part) == part \in {"audio", "both"}

RECURSIVE AudioEvents(_, _, _)
AudioEvents(parts, msgNo, i) ==
  IF i > Len(parts) THEN <<>>
  ELSE (IF HasAudio(parts[i]) THEN <<Event("audio", <<msgNo, i>>)>> ELSE <<>>)
       \o AudioEvents(parts, msgNo, i + 1)

RECURSIVE TextTimers(_, _, _)
TextTimers(parts, msgNo, i) ==
  IF i > Len(parts) THEN <<>>
  ELSE (IF HasText(parts[i]) THEN <<Event("text_display", <<msgNo, i>>)>> ELSE <<>>)
       \o TextTimers(parts, msgNo, i + 1)

RECURSIVE ClientSendAll(_, _, _)
ClientSendAll(out, state, evs) ==
  IF evs = <<>> THEN out
  ELSE ClientSendAll(ClientSend(out, state, Head(evs)), state, Tail(evs))

RECURSIVE PartEvents(_, _, _)
PartEvents(parts, msgNo, i) ==
  IF i > Len(parts) THEN <<>>
  ELSE (IF HasText(parts[i]) THEN <<Event("text_display", <<msgNo, i>>)>> ELSE <<>>)
       \o (IF HasAudio(parts[i]) THEN <<Event("audio", <<msgNo, i>>)>> ELSE <<>>)
       \o PartEvents(parts, msgNo, i + 1)

\* handleGeminiMessage sending each text part at once, in the order of the
\* parts, instead of handing it to a timer.
handleGeminiMessage_TextAtOnce(m, msgNo) ==
  IF ~m.valid
  THEN /\ clientOut' = <<>>
       /\ UNCHANGED textTimers
  ELSE /\ UNCHANGED textTimers
       /\ clientOut' = ClientSendAll(<<>>, clientState,
                         PartEvents(m.parts, msgNo, 1)
                         \o (IF m.error THEN <<Event("error", "gemini")>> ELSE <<>>))

\* handleGeminiMessage: audio parts are forwarded at once, text parts after
\* a 2000 ms timer, message.error as an error event.
handleGeminiMessage(m, msgNo) ==
  IF ~m.valid
  THEN /\ clientOut' = <<>>
       /\ UNCHANGED textTimers
  ELSE /\ textTimers' = textTimers \o TextTimers(m.parts, msgNo, 1)
       /\ clientOut' = ClientSendAll(<<>>, clientState,
                         AudioEvents(m.parts, msgNo, 1)
                         \o (IF m.error THEN <<Event("error", "gemini")>> ELSE <<>>))

UpstreamMessage(s, m) ==
  /\ sock[s] \in {"open", "closing"}
  /\ upstreamMsgs < MaxUpstreamMsgs
  /\ upstreamMsgs' = upstreamMsgs + 1
  /\ handleGeminiMessage(m, upstreamMsgs + 1)
  /\ upstreamOut' = <<>>
  /\ lastOp' = [op |-> "upstreamMessage", arg |-> m]
  /\ UNCHANGED nonRelayVars
  /\ UNCHANGED <<hasKey, clientState, handlersRegistered, geminiWs, sock, firstSent,
                 isGeminiConnected, sessionConfigured, conversationContext,
                 readyTimers, reconnectTimers, clientMsgs>>

\* handleGeminiClose: clears both flags; while the client is OPEN it sends
\* a status and arms the reconnect timer, whatever the close code.
handleGeminiClose(code) ==
  /\ isGeminiConnected' = FALSE
  /\ sessionConfigured' = FALSE
  /\ IF clientState = "open"
     THEN /\ clientOut' = ClientSend(<<>>, clientState, Event("status", "closed"))
          /\ reconnectTimers' = reconnectTimers + 1
     ELSE /\ clientOut' = <<>>
          /\ UNCHANGED reconnectTimers

UpstreamClose(s, code) ==
  /\ code \in CloseCodesOf(sock[s])
  /\ sock' = [sock EXCEPT ![s] = "closed"]
  /\ handleGeminiClose(code)
  /\ upstreamOut' = <<>>
  /\ lastOp' = [op |-> "upstreamClose", arg |-> code]
  /\ UNCHANGED nonRelayVars
  /\ UNCHANGED <<hasKey, clientState, handlersRegistered, geminiWs, firstSent,
                 conversationContext, readyTimers, textTimers, clientMsgs, upstreamMsgs>>

\* handleGeminiError: clears isGeminiConnected only.
handleGeminiError ==
  /\ isGeminiConnected' = FALSE
  /\ clientOut' = <<>>

\* The error handler closing the client connection as well.
UpstreamError_ClosesClient(s) ==
  /\ sock[s] \in {"connecting", "open", "aborted"}
  /\ sock' = [sock EXCEPT ![s] = "errored"]
  /\ handleGeminiError
  /\ clientState' = IF clientState = "open" THEN "closing" ELSE clientState
  /\ upstreamOut' = <<>>
  /\ lastOp' = [op |-> "upstreamError", arg |-> s]
  /\ UNCHANGED nonRelayVars
  /\ UNCHANGED <<hasKey, handlersRegistered, geminiWs, firstSent,
                 sessionConfigured, conversationContext, readyTimers,
                 reconnectTimers, textTimers, clientMsgs, upstreamMsgs>>

UpstreamError(s) ==
  /\ sock[s] \in {"connecting", "open", "aborted"}
  /\ sock' = [sock EXCEPT ![s] = "errored"]
  /\ handleGeminiError
  /\ upstreamOut' = <<>>
  /\ lastOp' = [op |-> "upstreamError", arg |-> s]
  /\ UNCHANGED nonRelayVars
  /\ UNCHANGED <<hasKey, clientState, handlersRegistered, geminiWs, firstSent,
                 sessionConfigured, conversationContext, readyTimers,
                 reconnectTimers, textTimers, clientMsgs, upstreamMsgs>>

Ready == isGeminiConnected /\ sessionConfigured
\* media_chunks holds the one chunk made of the frame.
RealtimeInput(data) == [kind |-> "realtime_input", data |-> <<data>>]
ClientContent(turns) == [kind |-> "client_content", data |-> turns]
\* geminiWs.send inside a try block: a throw is caught and logged.
TrySend(msg) ==
  IF geminiWs = 0 THEN <<>> ELSE UpstreamSend(geminiWs, sock[geminiWs], msg)

\* handleClientAudioData without its readiness guard.
handleClientAudioData_NoGuard(audioData) ==
  upstreamOut' = TrySend(RealtimeInput(audioData))

\* handleClientAudioData sending the envelope a second time.
handleClientAudioData_Resend(audioData) ==
  IF ~isGeminiConnected \/ ~sessionConfigured
  THEN upstreamOut' = <<>>
  ELSE upstreamOut' = TrySend(RealtimeInput(audioData)) \o TrySend(RealtimeInput(audioData))

handleClientAudioData(audioData) ==
  IF ~isGeminiConnected \/ ~sessionConfigured
  THEN upstreamOut' = <<>>
  ELSE upstreamOut' = TrySend(RealtimeInput(audioData))

LastN(q, n) == IF Len(q) <= n THEN q ELSE SubSeq(q, Len(q) - n + 1, Len(q))

\* sendTextToGemini without the slice(-8) of the context.
sendTextToGemini_NoSlice(text) ==
  IF ~isGeminiConnected \/ ~sessionConfigured
  THEN /\ upstreamOut' = <<>>
       /\ UNCHANGED conversationContext
  ELSE /\ conversationContext' = Append(conversationContext, text)
       /\ upstreamOut' = TrySend(ClientContent(conversationContext'))

sendTextToGemini(text) ==
  IF ~isGeminiConnected \/ ~sessionConfigured
  THEN /\ upstreamOut' = <<>>
       /\ UNCHANGED conversationContext
  ELSE /\ conversationContext' = LastN(Append(conversationContext, text), ContextLimit)
       /\ upstreamOut' = TrySend(ClientContent(conversationContext'))

IsRawAudio(f) == f.isBuffer /\ f.length > MinBinaryLength
\* What the message handler takes a frame for.
KindOf(f) == IF IsRawAudio(f) THEN "binary" ELSE f.body

\* case "connect" without the test of isGeminiConnected.
OnConnect_NoCheck ==
  /\ connectToGemini
  /\ clientOut' = <<>>
  /\ upstreamOut' = <<>>
  /\ UNCHANGED conversationContext

\* case "connect" of the message handler.
OnConnect ==
  IF ~isGeminiConnected
  THEN /\ connectToGemini
       /\ clientOut' = <<>>
       /\ upstreamOut' = <<>>
       /\ UNCHANGED conversationContext
  ELSE /\ clientOut' = ClientSend(<<>>, clientState, Event("status", "already"))
       /\ upstreamOut' = <<>>
       /\ UNCHANGED <<geminiWs, sock, conversationContext>>

\* case "text" recording and forwarding the text whatever the flags.
OnText_NoGuard(text) ==
  /\ conversationContext' = LastN(Append(conversationContext, text), ContextLimit)
  /\ upstreamOut' = TrySend(ClientContent(conversationContext'))
  /\ clientOut' = <<>>
  /\ UNCHANGED <<geminiWs, sock>>

\* case "text" of the message handler.
OnText(text) ==
  /\ IF isGeminiConnected /\ sessionConfigured
     THEN sendTextToGemini(text)
     ELSE /\ upstreamOut' = <<>>
          /\ UNCHANGED conversationContext
  /\ clientOut' = <<>>
  /\ UNCHANGED <<geminiWs, sock>>

\* The case of switch (message.type) that a message type selects; the
\* switch has no default.
DispatchCase(type) == IF type \in {"connect", "audio", "text"} THEN type ELSE "none"

\* clientWs.on("message"): frame number n stands for the frame's payload.
OnClientMessage(f, n) ==
  IF IsRawAudio(f)
  THEN /\ handleClientAudioData(n)
       /\ clientOut' = <<>>
       /\ UNCHANGED <<geminiWs, sock, conversationContext>>
  ELSE CASE f.body = "connect" -> OnConnect
         [] f.body = "audio" ->
              /\ handleClientAudioData(n)
              /\ clientOut' = <<>>
              /\ UNCHANGED <<geminiWs, sock, conversationContext>>
         [] f.body = "text" -> OnText(n)
         [] OTHER ->
              /\ clientOut' = <<>>
              /\ upstreamOut' = <<>>
              /\ UNCHANGED <<geminiWs, sock, conversationContext>>

ClientMessage(f) ==
  /\ clientState \in {"open", "closing"}
  /\ clientMsgs < MaxClientMsgs
  /\ clientMsgs' = clientMsgs + 1
  /\ IF handlersRegistered
     THEN OnClientMessage(f, clientMsgs + 1)
     ELSE /\ clientOut' = <<>>
          /\ upstreamOut' = <<>>
          /\ UNCHANGED <<geminiWs, sock, conversationContext>>
  /\ firstSent' = NoteFirst(firstSent, upstreamOut')
  /\ lastOp' = [op |-> "clientMessage", arg |-> KindOf(f)]
  /\ UNCHANGED nonRelayVars
  /\ UNCHANGED <<hasKey, clientState, handlersRegistered, isGeminiConnected,
                 sessionConfigured, readyTimers, reconnectTimers, textTimers, upstreamMsgs>>

\* clientWs.on("close"): closes geminiWs only while isGeminiConnected.
OnClientClose ==
  IF geminiWs # 0 /\ isGeminiConnected
  THEN sock' = [sock EXCEPT ![geminiWs] = AfterClose(@)]
  ELSE UNCHANGED sock

ClientClose ==
  /\ clientState \in {"open", "closing"}
  /\ clientState' = "closed"
  /\ IF handlersRegistered THEN OnClientClose ELSE UNCHANGED sock
  /\ clientOut' = <<>>
  /\ upstreamOut' = <<>>
  /\ lastOp' = [op |-> "clientClose", arg |-> 0]
  /\ UNCHANGED nonRelayVars
  /\ UNCHANGED <<hasKey, handlersRegistered, geminiWs, firstSent, isGeminiConnected,
                 sessionConfigured, conversationContext, readyTimers,
                 reconnectTimers, textTimers, clientMsgs, upstreamMsgs>>

ReadyTimerFire ==
  /\ readyTimers > 0
  /\ readyTimers' = readyTimers - 1
  /\ clientOut' = ClientSend(<<>>, clientState, Event("status", "ready"))
  /\ upstreamOut' = <<>>
  /\ lastOp' = [op |-> "readyTimer", arg |-> 0]
  /\ UNCHANGED nonRelayVars
  /\ UNCHANGED <<hasKey, clientState, handlersRegistered, geminiWs, sock, firstSent,
                 isGeminiConnected, sessionConfigured, conversationContext,
                 reconnectTimers, textTimers, clientMsgs, upstreamMsgs>>

\* The reconnect timer is never cleared: it runs connectToGemini unguarded.
ReconnectTimerFire ==
  /\ reconnectTimers > 0
  /\ reconnectTimers' = reconnectTimers - 1
  /\ connectToGemini
  /\ clientOut' = <<>>
  /\ upstreamOut' = <<>>
  /\ lastOp' = [op |-> "reconnectTimer", arg |-> 0]
  /\ UNCHANGED nonRelayVars
  /\ UNCHANGED <<hasKey, clientState, handlersRegistered, firstSent, isGeminiConnected,
                 sessionConfigured, conversationContext, readyTimers,
                 textTimers, clientMsgs, upstreamMsgs>>

TextTimerFire ==
  /\ textTimers # <<>>
  /\ textTimers' = Tail(textTimers)
  /\ clientOut' = ClientSend(<<>>, clientState, Head(textTimers))
  /\ upstreamOut' = <<>>
  /\ lastOp' = [op |-> "textTimer", arg |-> 0]
  /\ UNCHANGED nonRelayVars
  /\ UNCHANGED <<hasKey, clientState, handlersRegistered, geminiWs, sock, firstSent,
                 isGeminiConnected, sessionConfigured, conversationContext,
                 readyTimers, reconnectTimers, clientMsgs, upstreamMsgs>>

RelayNext ==
  \/ Connection
  \/ \E f \in Frames : ClientMessage(f)
  \/ ClientClose
  \/ \E s \in SockIds : UpstreamOpen(s)
  \/ \E s \in SockIds, m \in UpstreamMessages : UpstreamMessage(s, m)
  \/ \E s \in SockIds : UpstreamError(s)
  \/ \E s \in SockIds, code \in CloseCodes : UpstreamClose(s, code)
  \/ ReadyTimerFire
  \/ ReconnectTimerFire
  \/ TextTimerFire

(***************************************************************************)
(* Part 2: LiveChatClient.                                                 *)
(*                                                                         *)
(* A browser WebSocket that fails fires error and then close with code     *)
(* 1006; close() on a CONNECTING socket fails the connection.  A promise   *)
(* settles once: a reject after resolve or after an earlier reject does    *)
(* nothing.  The continuation of a rejected connectWebSocket() promise     *)
(* runs as a microtask of the step that rejected it, so it is part of      *)
(* that step.                                                              *)
(***************************************************************************)
Variants == {"lib", "part002"}
maxReconnectAttempts ==
  IF variant = "lib" THEN LibMaxReconnectAttempts ELSE Part002MaxReconnectAttempts
reconnectDelay ==
  IF variant = "lib" THEN LibReconnectDelay ELSE Part002ReconnectDelay
\* The delay of the timer armed by onclose, read after reconnectAttempts++.
ReconnectDelayAt(attempts) ==
  IF variant = "lib" THEN reconnectDelay ELSE reconnectDelay * attempts

ClientSockIds == 1..MaxClientSockets
NoSock == [state |-> "none", origin |-> "none", timeout |-> FALSE, settled |-> FALSE]
NumClientSockets == Cardinality({s \in ClientSockIds : wsock[s].state # "none"})
Origins == {"connect", "reconnect"}

ClientCloseCodesOf(state) ==
  CASE state = "open" -> {NormalClosure, 1006}
    [] state = "closing" -> {1005}
    [] state = "errored" -> {1006}
    [] OTHER -> {}

\* ws.close() by readyState.
AfterWsClose(state) ==
  CASE state = "connecting" -> "failing"
    [] state = "open" -> "closing"
    [] OTHER -> state

ClientInit ==
  /\ variant \in Variants
  /\ this_ws = 0
  /\ this_isConnected = FALSE
  /\ this_isGeminiConnected = FALSE
  /\ this_useEventSource = FALSE
  /\ this_reconnectAttempts = 0
  /\ wsock = [s \in ClientSockIds |-> NoSock]
  /\ reconnectPending = 0
  /\ fetches = [o \in Origins |-> 0]
  /\ fallbackTimers = 0
  /\ connectCalls = 0
  /\ delaysSinceOpen = <<>>
  /\ clientOp = [op |-> "init", arg |-> 0]
  /\ appOut = <<>>
  /\ armed = FALSE

\* connectWebSocket up to the return of its promise: a new socket in
\* this.ws, with its connect timeout armed.
connectWebSocket(origin) ==
  /\ NumClientSockets < MaxClientSockets
  /\ wsock' = [wsock EXCEPT ![NumClientSockets + 1] =
                 [state |-> "connecting", origin |-> origin,
                  timeout |-> TRUE, settled |-> FALSE]]
  /\ this_ws' = NumClientSockets + 1

\* What follows a rejected connectWebSocket() promise: connect() and the
\* reconnect timer's callback both call connectFallback, which starts fetch.
OnRejected(origin) == fetches' = [fetches EXCEPT ![origin] = @ + 1]

\* connect() called by the application.
Connect ==
  /\ connectCalls < MaxConnectCalls
  /\ connectCalls' = connectCalls + 1
  /\ connectWebSocket("connect")
  /\ appOut' = <<>>
  /\ armed' = FALSE
  /\ clientOp' = [op |-> "connect", arg |-> 0]
  /\ UNCHANGED <<variant, this_isConnected, this_isGeminiConnected, this_useEventSource,
                 this_reconnectAttempts, reconnectPending, fetches, fallbackTimers,
                 delaysSinceOpen>>
  /\ UNCHANGED nonClientVars

\* ws.onopen without the reset of reconnectAttempts.
onopen_NoReset(s) ==
  /\ wsock' = [wsock EXCEPT ![s] = [@ EXCEPT !.state = "open", !.timeout = FALSE,
                                               !.settled = TRUE]]
  /\ this_isConnected' = TRUE
  /\ UNCHANGED this_reconnectAttempts
  /\ appOut' = <<"onConnect">>

\* ws.onopen: clearTimeout, isConnected, reconnectAttempts = 0, onConnect, resolve.
onopen(s) ==
  /\ wsock' = [wsock EXCEPT ![s] = [@ EXCEPT !.state = "open", !.timeout = FALSE,
                                               !.settled = TRUE]]
  /\ this_isConnected' = TRUE
  /\ this_reconnectAttempts' = 0
  /\ appOut' = <<"onConnect">>

SocketOpen(s) ==
  /\ wsock[s].state = "connecting"
  /\ onopen(s)
  /\ delaysSinceOpen' = <<>>
  /\ armed' = FALSE
  /\ clientOp' = [op |-> "open", arg |-> s]
  /\ UNCHANGED <<variant, this_ws, this_isGeminiConnected, this_useEventSource,
                 reconnectPending, fetches, fallbackTimers, connectCalls>>
  /\ UNCHANGED nonClientVars

\* ws.onerror: clearTimeout, onError, reject.
onerror(s) ==
  /\ wsock' = [wsock EXCEPT ![s] = [@ EXCEPT !.state = "errored", !.timeout = FALSE,
                                               !.settled = TRUE]]
  /\ appOut' = <<"onError">>
  /\ IF wsock[s].settled THEN UNCHANGED fetches ELSE OnRejected(wsock[s].origin)

SocketError(s) ==
  /\ wsock[s].state \in {"connecting", "open", "failing"}
  /\ onerror(s)
  /\ armed' = FALSE
  /\ clientOp' = [op |-> "error", arg |-> s]
  /\ UNCHANGED <<variant, this_ws, this_isConnected, this_isGeminiConnected,
                 this_useEventSource, this_reconnectAttempts, reconnectPending,
                 fallbackTimers, connectCalls, delaysSinceOpen>>
  /\ UNCHANGED nonClientVars

\* The reconnect condition of onclose without its test of the close code.
ShouldReconnect_AnyCode(code) ==
  this_reconnectAttempts < maxReconnectAttempts

ShouldReconnect(code) ==
  code # NormalClosure /\ this_reconnectAttempts < maxReconnectAttempts

\* ws.onclose: clearTimeout, both flags false, onDisconnect, and the
\* reconnect timer while the budget lasts.
onclose(s, code) ==
  /\ wsock' = [wsock EXCEPT ![s] = [@ EXCEPT !.state = "closed", !.timeout = FALSE]]
  /\ this_isConnected' = FALSE
  /\ this_isGeminiConnected' = FALSE
  /\ appOut' = <<"onDisconnect">>
  /\ IF ShouldReconnect(code)
     THEN /\ this_reconnectAttempts' = this_reconnectAttempts + 1
          /\ reconnectPending' = reconnectPending + 1
          /\ delaysSinceOpen' =
               Append(delaysSinceOpen, ReconnectDelayAt(this_reconnectAttempts + 1))
          /\ armed' = TRUE
     ELSE /\ UNCHANGED <<this_reconnectAttempts, reconnectPending, delaysSinceOpen>>
          /\ armed' = FALSE

SocketClose(s, code) ==
  /\ code \in ClientCloseCodesOf(wsock[s].state)
  /\ onclose(s, code)
  /\ clientOp' = [op |-> "close", arg |-> code]
  /\ UNCHANGED <<variant, this_ws, this_useEventSource, fetches, fallbackTimers,
                 connectCalls>>
  /\ UNCHANGED nonClientVars

\* The connect timeout of socket s: closes this.ws, whichever socket that
\* is by now, and rejects the promise of s; nothing when this.ws is null.
ConnectTimeout(s) ==
  /\ wsock[s].timeout
  /\ IF this_ws # 0
     THEN /\ wsock' = [t \in ClientSockIds |->
                         [wsock[t] EXCEPT
                            !.state = IF t = this_ws THEN AfterWsClose(@) ELSE @,
                            !.timeout = IF t = s THEN FALSE ELSE @,
                            !.settled = IF t = s THEN TRUE ELSE @]]
          /\ IF wsock[s].settled THEN UNCHANGED fetches ELSE OnRejected(wsock[s].origin)
     ELSE /\ wsock' = [wsock EXCEPT ![s] = [@ EXCEPT !.timeout = FALSE]]
          /\ UNCHANGED fetches
  /\ appOut' = <<>>
  /\ armed' = FALSE
  /\ clientOp' = [op |-> "timeout", arg |-> s]
  /\ UNCHANGED <<variant, this_ws, this_isConnected, this_isGeminiConnected,
                 this_useEventSource, this_reconnectAttempts, reconnectPending,
                 fallbackTimers, connectCalls, delaysSinceOpen>>
  /\ UNCHANGED nonClientVars

\* The reconnect timer armed by onclose.
ReconnectFire ==
  /\ reconnectPending > 0
  /\ reconnectPending' = reconnectPending - 1
  /\ connectWebSocket("reconnect")
  /\ appOut' = <<>>
  /\ armed' = FALSE
  /\ clientOp' = [op |-> "reconnect", arg |-> 0]
  /\ UNCHANGED <<variant, this_isConnected, this_isGeminiConnected, this_useEventSource,
                 this_reconnectAttempts, fetches, fallbackTimers, connectCalls,
                 delaysSinceOpen>>
  /\ UNCHANGED nonClientVars

\* connectFallback after its fetch: connected over the fallback when the
\* response is ok; otherwise it throws, which rejects connect() or, for a
\* reconnect, is only logged.
FallbackResult(origin, ok) ==
  /\ fetches[origin] > 0
  /\ fetches' = [fetches EXCEPT ![origin] = @ - 1]
  /\ IF ok
     THEN /\ this_isConnected' = TRUE
          /\ this_useEventSource' = TRUE
          /\ fallbackTimers' = fallbackTimers + 1
          /\ appOut' = <<"onConnect">>
     ELSE /\ UNCHANGED <<this_isConnected, this_useEventSource, fallbackTimers>>
          /\ appOut' = IF origin = "connect" THEN <<"connectRejected">> ELSE <<>>
  /\ armed' = FALSE
  /\ clientOp' = [op |-> "fallback", arg |-> origin]
  /\ UNCHANGED <<variant, this_ws, this_isGeminiConnected, this_reconnectAttempts,
                 wsock, reconnectPending, connectCalls, delaysSinceOpen>>
  /\ UNCHANGED nonClientVars

\* The timer of connectFallback that simulates the Gemini session.
FallbackTimerFire ==
  /\ fallbackTimers > 0
  /\ fallbackTimers' = fallbackTimers - 1
  /\ this_isGeminiConnected' = TRUE
  /\ appOut' = <<"onStatusUpdate">>
  /\ armed' = FALSE
  /\ clientOp' = [op |-> "fallbackTimer", arg |-> 0]
  /\ UNCHANGED <<variant, this_ws, this_isConnected, this_useEventSource,
                 this_reconnectAttempts, wsock, reconnectPending, fetches,
                 connectCalls, delaysSinceOpen>>
  /\ UNCHANGED nonClientVars

\* disconnect() called by the application.
Disconnect ==
  /\ IF this_ws # 0
     THEN /\ wsock' = [wsock EXCEPT ![this_ws] = [@ EXCEPT !.state = AfterWsClose(@)]]
          /\ this_ws' = 0
     ELSE UNCHANGED <<wsock, this_ws>>
  /\ this_isConnected' = FALSE
  /\ this_isGeminiConnected' = FALSE
  /\ this_useEventSource' = FALSE
  /\ appOut' = <<>>
  /\ armed' = FALSE
  /\ clientOp' = [op |-> "disconnect", arg |-> 0]
  /\ UNCHANGED <<variant, this_reconnectAttempts, reconnectPending, fetches,
                 fallbackTimers, connectCalls, delaysSinceOpen>>
  /\ UNCHANGED nonClientVars

\* A close event on a socket that has not opened, with no error event
\* before it: onclose runs as for any close.
SocketCloseBeforeOpen(s) ==
  /\ wsock[s].state \in {"connecting", "failing"}
  /\ onclose(s, 1006)
  /\ clientOp' = [op |-> "closeBeforeOpen", arg |-> s]
  /\ UNCHANGED <<variant, this_ws, this_useEventSource, fetches, fallbackTimers,
                 connectCalls>>
  /\ UNCHANGED nonClientVars

\* The promise of connect() has neither resolved nor rejected: the promise
\* of its connectWebSocket() is unsettled, or its connectFallback() awaits
\* the fetch.
ConnectPending ==
  \/ \E s \in ClientSockIds : wsock[s].origin = "connect" /\ ~wsock[s].settled
  \/ fetches["connect"] > 0

ClientNext ==
  \/ Connect
  \/ \E s \in ClientSockIds : SocketOpen(s)
  \/ \E s \in ClientSockIds : SocketError(s)
  \/ \E s \in ClientSockIds, code \in CloseCodes : SocketClose(s, code)
  \/ \E s \in ClientSockIds : ConnectTimeout(s)
  \/ ReconnectFire
  \/ \E origin \in Origins, ok \in BOOLEAN : FallbackResult(origin, ok)
  \/ FallbackTimerFire
  \/ Disconnect

(***************************************************************************)
(* The methods of LiveChatClient the application calls while connected.    *)
(* WebSocket.send throws on a CONNECTING socket and discards the data on a *)
(* CLOSING or CLOSED one; on a null this.ws the call throws as well.       *)
(***************************************************************************)
MessageTypes == {"connect", "text", "audio", "audio_data", "init"}
WsSendThrows == this_ws = 0 \/ wsock[this_ws].state \in {"connecting", "failing"}
WsSend(what) ==
  IF this_ws # 0 /\ wsock[this_ws].state = "open"
  THEN <<[sock |-> this_ws, what |-> what]>> ELSE <<>>

ApiStep(op) ==
  /\ clientOp' = [op |-> op, arg |-> 0]
  /\ armed' = FALSE
  /\ UNCHANGED <<variant, this_ws, this_isConnected, this_isGeminiConnected,
                 this_useEventSource, this_reconnectAttempts, wsock, reconnectPending,
                 fetches, connectCalls, delaysSinceOpen>>
  /\ UNCHANGED <<relayVars, detVars, fnVars, sessVars>>

\* send(message): the try block around this.ws.send.
send(type) ==
  IF ~this_isConnected \/ this_useEventSource
  THEN wsSent' = <<>> /\ appOut' = <<>>
  ELSE IF WsSendThrows
  THEN wsSent' = <<>> /\ appOut' = <<"onError">>
  ELSE wsSent' = WsSend(type) /\ appOut' = <<>>

this_send(type) ==
  /\ send(type)
  /\ UNCHANGED <<fallbackTimers, simTimers>>
  /\ ApiStep("send")

\* sendAudio sending whatever the two flags hold.
sendAudio_NoGuard(valid, loud) ==
  IF this_useEventSource
  THEN /\ wsSent' = <<>> /\ appOut' = <<>>
       /\ simTimers' = IF loud THEN simTimers + 1 ELSE simTimers
  ELSE /\ UNCHANGED simTimers
       /\ IF ~valid \/ WsSendThrows
          THEN wsSent' = <<>> /\ appOut' = <<"onError">>
          ELSE wsSent' = WsSend("binary") /\ appOut' = <<>>

\* sendAudio(audioData): valid says the argument is an Int16Array or an
\* ArrayBuffer, loud that simulateAudioProcessing finds a level above 1000.
sendAudio(valid, loud) ==
  IF ~this_isConnected \/ ~this_isGeminiConnected
  THEN wsSent' = <<>> /\ appOut' = <<>> /\ UNCHANGED simTimers
  ELSE IF this_useEventSource
  THEN /\ wsSent' = <<>> /\ appOut' = <<>>
       /\ simTimers' = IF loud THEN simTimers + 1 ELSE simTimers
  ELSE /\ UNCHANGED simTimers
       /\ IF ~valid \/ WsSendThrows
          THEN wsSent' = <<>> /\ appOut' = <<"onError">>
          ELSE wsSent' = WsSend("binary") /\ appOut' = <<>>

this_sendAudio(valid, loud) ==
  /\ simTimers < MaxSimTimers
  /\ sendAudio(valid, loud)
  /\ UNCHANGED fallbackTimers
  /\ ApiStep("sendAudio")

\* sendText(text)
sendText ==
  IF ~this_isConnected \/ ~this_isGeminiConnected
  THEN wsSent' = <<>> /\ appOut' = <<>> /\ UNCHANGED simTimers
  ELSE IF this_useEventSource
  THEN wsSent' = <<>> /\ appOut' = <<>> /\ simTimers' = simTimers + 1
  ELSE send("text") /\ UNCHANGED simTimers

this_sendText ==
  /\ simTimers < MaxSimTimers
  /\ sendText
  /\ UNCHANGED fallbackTimers
  /\ ApiStep("sendText")

\* connectToGemini(): throws while not connected; over the fallback it arms
\* a timer that does what the timer of connectFallback does.
this_connectToGemini ==
  /\ fallbackTimers < MaxFallbackTimers
  /\ IF ~this_isConnected
     THEN wsSent' = <<>> /\ appOut' = <<"throws">> /\ UNCHANGED fallbackTimers
     ELSE IF this_useEventSource
     THEN wsSent' = <<>> /\ appOut' = <<>> /\ fallbackTimers' = fallbackTimers + 1
     ELSE send("connect") /\ UNCHANGED fallbackTimers
  /\ UNCHANGED simTimers
  /\ ApiStep("connectToGemini")

\* The timer of a simulated response: generateFallbackResponse calls the
\* application.
SimTimerFire ==
  /\ simTimers > 0
  /\ simTimers' = simTimers - 1
  /\ wsSent' = <<>>
  /\ appOut' = <<"onTextResponse", "onAudioResponse">>
  /\ UNCHANGED fallbackTimers
  /\ ApiStep("simTimer")

(***************************************************************************)
(* The speech monitors of the conversation page.  A sample is the          *)
(* normalized level of one animation frame, above the threshold or not,    *)
(* together with what liveChatClientRef.current?.geminiConnected yields.   *)
(* checkAudioLevel is created by one call of the start function and        *)
(* reschedules itself: the speechDetected it reads is the constant of the  *)
(* render that made that call, not the React state that setSpeechDetected  *)
(* updates.  The page of src/app/conversation/page.tsx starts              *)
(* startSimplifiedMonitoring, the page kept in                             *)
(* src/app/api/live-chat/route.ts starts startInstantRealtimeMonitoring.   *)
(***************************************************************************)
Monitors == {"instant", "simplified"}
Levels == {"above", "below"}
TimerKinds == {"silence", "response"}

DetInit ==
  /\ monitor \in Monitors
  /\ speechDetected = FALSE
  /\ closureSpeechDetected = FALSE
  /\ silenceTimeoutRef = FALSE
  /\ silenceTimerPending = FALSE
  /\ responseTimers = 0
  /\ isStreamingRef = FALSE
  /\ monitoringRef = FALSE
  /\ frameScheduled = FALSE
  /\ quietRun = 0
  /\ detOp = [op |-> "init", level |-> "below", odd |-> FALSE]

\* silenceTimeoutRef.current = setTimeout(..)
ArmSilenceTimer ==
  /\ silenceTimeoutRef' = TRUE
  /\ silenceTimerPending' = TRUE

\* clearTimeout(silenceTimeoutRef.current); silenceTimeoutRef.current = null
ClearSilenceTimer ==
  /\ silenceTimeoutRef' = FALSE
  /\ silenceTimerPending' = FALSE

\* The three branches of checkAudioLevel of startInstantRealtimeMonitoring,
\* reading the state variable through the given value.
DetectInstant(level, geminiConnected, seen) ==
  LET isSpeaking == level = "above"
  IN  IF isSpeaking /\ ~seen
      THEN /\ speechDetected' = TRUE
           /\ isStreamingRef' = (isStreamingRef \/ geminiConnected)
           /\ UNCHANGED <<silenceTimeoutRef, silenceTimerPending, responseTimers>>
      ELSE IF ~isSpeaking /\ seen
      THEN /\ IF ~silenceTimeoutRef
              THEN ArmSilenceTimer
              ELSE UNCHANGED <<silenceTimeoutRef, silenceTimerPending>>
           /\ UNCHANGED <<speechDetected, isStreamingRef, responseTimers>>
      ELSE IF isSpeaking /\ seen
      THEN /\ IF silenceTimeoutRef
              THEN ClearSilenceTimer
              ELSE UNCHANGED <<silenceTimeoutRef, silenceTimerPending>>
           /\ UNCHANGED <<speechDetected, isStreamingRef, responseTimers>>
      ELSE UNCHANGED <<speechDetected, isStreamingRef, silenceTimeoutRef,
                       silenceTimerPending, responseTimers>>

\* The two branches of checkAudioLevel of startSimplifiedMonitoring.
DetectSimplified(level, seen) ==
  LET isSpeaking == level = "above"
  IN  IF isSpeaking /\ ~seen
      THEN /\ speechDetected' = TRUE
           /\ IF ~silenceTimeoutRef
              THEN ArmSilenceTimer
              ELSE UNCHANGED <<silenceTimeoutRef, silenceTimerPending>>
           /\ UNCHANGED <<isStreamingRef, responseTimers>>
      ELSE IF ~isSpeaking /\ seen
      THEN /\ IF silenceTimeoutRef
              THEN ClearSilenceTimer
              ELSE UNCHANGED <<silenceTimeoutRef, silenceTimerPending>>
           /\ speechDetected' = FALSE
           /\ responseTimers' = IF responseTimers < MaxResponseTimers
                                 THEN responseTimers + 1 ELSE responseTimers
           /\ UNCHANGED isStreamingRef
      ELSE UNCHANGED <<speechDetected, isStreamingRef, silenceTimeoutRef,
                       silenceTimerPending, responseTimers>>

\* checkAudioLevel reading the current state and never clearing the timer.
checkAudioLevel_NoCancel(level, geminiConnected) ==
  IF level = "above"
  THEN /\ speechDetected' = TRUE
       /\ isStreamingRef' = (isStreamingRef \/ geminiConnected)
       /\ UNCHANGED <<silenceTimeoutRef, silenceTimerPending, responseTimers>>
  ELSE /\ IF speechDetected /\ ~silenceTimeoutRef
          THEN ArmSilenceTimer
          ELSE UNCHANGED <<silenceTimeoutRef, silenceTimerPending>>
       /\ UNCHANGED <<speechDetected, isStreamingRef, responseTimers>>

\* checkAudioLevel as the running loop executes it.
checkAudioLevel(level, geminiConnected) ==
  IF monitor = "instant"
  THEN DetectInstant(level, geminiConnected, closureSpeechDetected)
  ELSE DetectSimplified(level, closureSpeechDetected)

NextQuietRun(level) ==
  IF level = "above" THEN 0
  ELSE IF quietRun < MaxQuietRun THEN quietRun + 1 ELSE quietRun

\* startInstantRealtimeMonitoring / startSimplifiedMonitoring, called once
\* by the initialisation of the page: the call creates checkAudioLevel and
\* runs it for the first sample.
StartMonitoring(level, geminiConnected) ==
  /\ detOp.op = "init"
  /\ monitoringRef' = TRUE
  /\ closureSpeechDetected' = speechDetected
  /\ IF monitor = "instant"
     THEN DetectInstant(level, geminiConnected, closureSpeechDetected')
     ELSE DetectSimplified(level, closureSpeechDetected')
  /\ frameScheduled' = TRUE
  /\ quietRun' = NextQuietRun(level)
  /\ detOp' = [op |-> "sample", level |-> level, odd |-> ~detOp.odd]
  /\ UNCHANGED monitor
  /\ UNCHANGED nonDetVars

\* The animation frame callback: checkAudioLevel returns without
\* rescheduling once monitoringRef is false.
AnimationFrame(level, geminiConnected) ==
  /\ frameScheduled
  /\ IF ~monitoringRef
     THEN /\ frameScheduled' = FALSE
          /\ detOp' = [op |-> "stopped", level |-> "below", odd |-> detOp.odd]
          /\ UNCHANGED <<speechDetected, isStreamingRef, silenceTimeoutRef,
                         silenceTimerPending, responseTimers, quietRun>>
     ELSE /\ checkAudioLevel(level, geminiConnected)
          /\ frameScheduled' = TRUE
          /\ quietRun' = NextQuietRun(level)
          /\ detOp' = [op |-> "sample", level |-> level, odd |-> ~detOp.odd]
  /\ UNCHANGED <<monitor, closureSpeechDetected, monitoringRef>>
  /\ UNCHANGED nonDetVars

\* A pending timer runs its callback: the timer held by silenceTimeoutRef
\* runs the 800 ms callback of the instant monitor or, for the simplified
\* monitor, generateInstantResponse, which leaves the ref as it is; the
\* 500 ms timers of the simplified monitor run generateInstantResponse.
TimerFire(kind) ==
  /\ IF kind = "silence"
     THEN /\ silenceTimerPending
          /\ IF monitor = "instant"
             THEN /\ speechDetected' = FALSE
                  /\ isStreamingRef' = FALSE
                  /\ ClearSilenceTimer
             ELSE /\ silenceTimerPending' = FALSE
                  /\ UNCHANGED <<speechDetected, isStreamingRef, silenceTimeoutRef>>
          /\ UNCHANGED responseTimers
     ELSE /\ responseTimers > 0
          /\ responseTimers' = responseTimers - 1
          /\ UNCHANGED <<speechDetected, isStreamingRef, silenceTimeoutRef,
                         silenceTimerPending>>
  /\ detOp' = [op |-> kind, level |-> "below", odd |-> detOp.odd]
  /\ UNCHANGED <<monitor, closureSpeechDetected, monitoringRef, frameScheduled, quietRun>>
  /\ UNCHANGED nonDetVars

\* endConversation: clearTimeout leaves silenceTimeoutRef.current as it is.
endConversation ==
  /\ detOp.op # "init"
  /\ monitoringRef' = FALSE
  /\ isStreamingRef' = FALSE
  /\ silenceTimerPending' = FALSE
  /\ detOp' = [op |-> "endConversation", level |-> "below", odd |-> detOp.odd]
  /\ UNCHANGED <<monitor, speechDetected, closureSpeechDetected, silenceTimeoutRef,
                 responseTimers, frameScheduled, quietRun>>
  /\ UNCHANGED nonDetVars

DetNext ==
  \/ \E level \in Levels, c \in BOOLEAN : StartMonitoring(level, c)
  \/ \E level \in Levels, c \in BOOLEAN : AnimationFrame(level, c)
  \/ \E kind \in TimerKinds : TimerFire(kind)
  \/ endConversation

(***************************************************************************)
(* Sample conversions.  A microphone sample x is the rational u / InDen    *)
(* or NaN.  Storing a number in an Int16Array truncates it toward zero and *)
(* wraps it modulo 2^16; storing NaN gives 0.                              *)
(***************************************************************************)
InDen == 2 * FullScale
Min(a, b) == IF a <= b THEN a ELSE b
Max(a, b) == IF a >= b THEN a ELSE b
Trunc(num, den) == IF num >= 0 THEN num \div den ELSE -((-num) \div den)
ToInt16(v) == ((v + FullScale) % (2 * FullScale)) - FullScale

PcmInputs ==
  [nan : {FALSE},
   u : (-3..3) \cup {InDen + d : d \in -3..3} \cup {d - InDen : d \in -3..3}
       \cup {k * 8191 : k \in -24..24}]
  \cup {[nan |-> TRUE, u |-> 0]}

\* x * 32768 for x = u / InDen is u / 2: products by 32768 are kept as
\* numerators over 2, products by 0x7fff as numerators over InDen.

\* int16Data[i] = inputData[i] * 32768 without the clamp.
onaudioprocess_NoClamp(x) ==
  IF x.nan THEN 0 ELSE ToInt16(Trunc(x.u, 2))

\* int16Data[i] = Math.max(-32768, Math.min(32767, inputData[i] * 32768))
onaudioprocess(x) ==
  IF x.nan THEN 0
  ELSE ToInt16(Trunc(Max(-FullScale * 2, Min(Int16Max * 2, x.u)), 2))

\* float32ToPCM16: clamp to [-1, 1], then scale by 0x8000 or 0x7fff.
float32ToPCM16(x) ==
  IF x.nan THEN 0
  ELSE LET sample == Max(-InDen, Min(InDen, x.u))
       IN  ToInt16(IF sample < 0 THEN Trunc(sample, 2)
                                 ELSE Trunc(sample * Int16Max, InDen))

FnIdle ==
  /\ fnIn = <<>>
  /\ fnOut = <<>>
  /\ fnOp = "init"

PcmInit ==
  /\ fnIn \in PcmInputs
  /\ fnOut = <<>>
  /\ fnOp = "init"

ProcessorEncode ==
  /\ fnOp = "init"
  /\ fnOut' = <<onaudioprocess(fnIn)>>
  /\ fnOp' = "onaudioprocess"
  /\ UNCHANGED fnIn
  /\ UNCHANGED nonFnVars

ClientEncode ==
  /\ fnOp = "init"
  /\ fnOut' = <<float32ToPCM16(fnIn)>>
  /\ fnOp' = "float32ToPCM16"
  /\ UNCHANGED fnIn
  /\ UNCHANGED nonFnVars

PcmNext == ProcessorEncode \/ ClientEncode

(***************************************************************************)
(* Audio framing of the response path.  The upstream service packs int16   *)
(* samples little-endian and base64-encodes the bytes; a base64 text is    *)
(* the sequence of its 6-bit digits, Pad standing for "=".  The relay      *)
(* decodes the text into bytes and sends them as a JSON array; the client  *)
(* views the bytes as an Int16Array (little-endian hosts).                 *)
(***************************************************************************)
SampleValues ==
  {-FullScale, 1 - FullScale, -257, -256, -255, -1, 0, 1, 127, 128, 255, 256, Int16Max}
RECURSIVE SeqsUpTo(_, _)
SeqsUpTo(S, n) ==
  IF n = 0 THEN {<<>>}
  ELSE LET shorter == SeqsUpTo(S, n - 1)
       IN  shorter \cup {Append(q, x) : q \in shorter, x \in S}

\* The 64 digits of the base64 alphabet; Pad is the one value that is no digit.
Base64Digits == 0..63
Pad == Cardinality(Base64Digits)

RECURSIVE PackLE(_)
PackLE(samples) ==
  IF samples = <<>> THEN <<>>
  ELSE LET u == Head(samples) % (2 * FullScale)
       IN  <<u % 256, u \div 256>> \o PackLE(Tail(samples))

RECURSIVE Base64Encode(_)
Base64Encode(bytes) ==
  IF Len(bytes) = 0 THEN <<>>
  ELSE IF Len(bytes) = 1
  THEN <<bytes[1] \div 4, (bytes[1] % 4) * 16, Pad, Pad>>
  ELSE IF Len(bytes) = 2
  THEN <<bytes[1] \div 4, (bytes[1] % 4) * 16 + bytes[2] \div 16,
         (bytes[2] % 16) * 4, Pad>>
  ELSE <<bytes[1] \div 4, (bytes[1] % 4) * 16 + bytes[2] \div 16,
         (bytes[2] % 16) * 4 + bytes[3] \div 64, bytes[3] % 64>>
       \o Base64Encode(SubSeq(bytes, 4, Len(bytes)))

\* Buffer.from(text, "base64") and atob on a padded text.
RECURSIVE Base64Decode(_)
Base64Decode(text) ==
  IF Len(text) < 4 THEN <<>>
  ELSE LET b1 == text[1] * 4 + text[2] \div 16
           b2 == (text[2] % 16) * 16 + text[3] \div 4
           b3 == (text[3] % 4) * 64 + text[4]
       IN  IF text[3] = Pad THEN <<b1>>
           ELSE IF text[4] = Pad THEN <<b1, b2>>
           ELSE <<b1, b2, b3>> \o Base64Decode(SubSeq(text, 5, Len(text)))

\* The data of the relay's audio event for an inline audio part.
AudioEventData(text) == Base64Decode(text)

\* new Int16Array(uint8Array.buffer) reading the high byte first.
Int16ArrayOf_BigEndian(bytes) ==
  [i \in 1..(Len(bytes) \div 2) |->
     LET u == 256 * bytes[2 * i - 1] + bytes[2 * i]
     IN  IF u >= FullScale THEN u - 2 * FullScale ELSE u]

\* new Int16Array(new Uint8Array(message.data).buffer)
Int16ArrayOf(bytes) ==
  [i \in 1..(Len(bytes) \div 2) |->
     LET u == bytes[2 * i - 1] + 256 * bytes[2 * i]
     IN  IF u >= FullScale THEN u - 2 * FullScale ELSE u]

\* channelData[i] = audioData[i] / 32768, as numerator and denominator.
playInstantAudioResponse(audioData) ==
  [i \in 1..Len(audioData) |-> <<audioData[i], FullScale>>]

\* playAudioResponse: atob, then bytes[2i] | (bytes[2i+1] << 8) scaled by 0x8000.
playAudioResponse(base64Audio) ==
  LET bytes == Base64Decode(base64Audio)
  IN  [i \in 1..(Len(bytes) \div 2) |->
         LET sample == bytes[2 * i - 1] + 256 * bytes[2 * i]
         IN  <<IF sample < FullScale THEN sample ELSE sample - 2 * FullScale, FullScale>>]

FramingInit ==
  /\ fnIn \in SeqsUpTo(SampleValues, MaxSamples)
  /\ fnOut = <<>>
  /\ fnOp = "init"

\* The inline audio part relayed by server.js and decoded by LiveChatClient
\* and the page.
RelayAudio ==
  /\ fnOp = "init"
  /\ LET samples == Int16ArrayOf(AudioEventData(Base64Encode(PackLE(fnIn))))
     IN  fnOut' = [samples |-> samples, values |-> playInstantAudioResponse(samples)]
  /\ fnOp' = "audio"
  /\ UNCHANGED fnIn
  /\ UNCHANGED nonFnVars

\* The base64 audio handed to playAudioResponse as it is.
PlayBase64 ==
  /\ fnOp = "init"
  /\ fnOut' = [samples |-> <<>>, values |-> playAudioResponse(Base64Encode(PackLE(fnIn)))]
  /\ fnOp' = "playAudioResponse"
  /\ UNCHANGED fnIn
  /\ UNCHANGED nonFnVars

FramingNext == RelayAudio \/ PlayBase64

(***************************************************************************)
(* The relay and a LiveChatClient connected to it.  The events a relay     *)
(* handler sent reach ws.onmessage of the client one by one and in order,  *)
(* before the relay handles anything else.                                 *)
(***************************************************************************)
\* message.message.includes("session ready"): of the status texts of the
\* relay only "Gemini session ready for audio streaming" includes it.
IncludesSessionReady(status) == status = "ready"

handleMessage(ev) ==
  /\ this_isGeminiConnected' =
       IF ev.type = "status" /\ IncludesSessionReady(ev.data)
       THEN TRUE ELSE this_isGeminiConnected
  /\ appOut' = CASE ev.type = "status" -> <<"onStatusUpdate">>
                 [] ev.type = "audio" -> <<"onAudioResponse">>
                 [] ev.type = "error" -> <<"onError">>
                 [] ev.type = "text" -> <<"onTextResponse">>
                 [] ev.type = "text_display" /\ variant = "part002" -> <<"onTextDisplay">>
                 [] OTHER -> <<>>

\* ws.onmessage of the client's open socket.
SocketMessage ==
  /\ clientOut # <<>>
  /\ this_ws # 0
  /\ wsock[this_ws].state = "open"
  /\ handleMessage(Head(clientOut))
  /\ clientOut' = Tail(clientOut)
  /\ clientOp' = [op |-> "message", arg |-> 0]
  /\ armed' = FALSE
  /\ UNCHANGED <<variant, this_ws, this_isConnected, this_useEventSource,
                 this_reconnectAttempts, wsock, reconnectPending, fetches,
                 fallbackTimers, connectCalls, delaysSinceOpen>>
  /\ UNCHANGED <<hasKey, clientState, handlersRegistered, geminiWs, sock, firstSent,
                 isGeminiConnected, sessionConfigured, conversationContext,
                 readyTimers, reconnectTimers, textTimers, clientMsgs, upstreamMsgs,
                 lastOp, upstreamOut>>
  /\ UNCHANGED <<detVars, fnVars, sessVars, apiVars>>

\* The client after connect() and the onopen of its first socket.
ClientOnline ==
  /\ variant \in Variants
  /\ this_ws = 1
  /\ this_isConnected = TRUE
  /\ this_isGeminiConnected = FALSE
  /\ this_useEventSource = FALSE
  /\ this_reconnectAttempts = 0
  /\ wsock = [s \in ClientSockIds |->
                IF s = 1 THEN [state |-> "open", origin |-> "connect",
                               timeout |-> FALSE, settled |-> TRUE]
                ELSE NoSock]
  /\ reconnectPending = 0
  /\ fetches = [o \in Origins |-> 0]
  /\ fallbackTimers = 0
  /\ connectCalls = 1
  /\ delaysSinceOpen = <<>>
  /\ clientOp = [op |-> "open", arg |-> 1]
  /\ appOut = <<"onConnect">>
  /\ armed = FALSE

RelayStep == clientOut = <<>> /\ RelayNext

BeliefNext == RelayStep \/ SocketMessage

\* ws.onmessage of socket s for a status the server sent, the server being
\* left out.
ServerMessage(s, ev) ==
  /\ wsock[s].state = "open"
  /\ handleMessage(ev)
  /\ clientOp' = [op |-> "message", arg |-> 0]
  /\ armed' = FALSE
  /\ UNCHANGED <<variant, this_ws, this_isConnected, this_useEventSource,
                 this_reconnectAttempts, wsock, reconnectPending, fetches,
                 fallbackTimers, connectCalls, delaysSinceOpen>>
  /\ UNCHANGED nonClientVars

StatusEvents == {Event("status", "ready"), Event("status", "closed")}

ApiNext ==
  \/ ClientNext
  \/ \E s \in ClientSockIds, ev \in StatusEvents : ServerMessage(s, ev)
  \/ \E type \in MessageTypes : this_send(type)
  \/ \E valid \in BOOLEAN, loud \in BOOLEAN : this_sendAudio(valid, loud)
  \/ this_sendText
  \/ this_connectToGemini
  \/ SimTimerFire

(***************************************************************************)
(* The HTTP routes.  A request is the route, whether GEMINI_API_KEY is set *)
(* in the process environment, whether request.json() succeeds, the fields *)
(* of the body, and what the call to the upstream service comes to.  A     *)
(* response is its HTTP status, its success field ("absent" when the body  *)
(* has none) and where its data came from.                                 *)
(***************************************************************************)
Routes == {"start", "audioChunk", "processSpeech"}
UpstreamOutcomes == {"text", "empty", "notOk", "throws"}
Requests ==
  [route : Routes, envKey : BOOLEAN, jsonOk : BOOLEAN,
   crushGender : {"boy", "girl", "other"},
   audioLength : {0, SpeechMinAudioLength - 1, SpeechMinAudioLength,
                  ChunkMinAudioLength - 1, ChunkMinAudioLength},
   fastMode : BOOLEAN, upstream : UpstreamOutcomes]

Response(status, success, source) ==
  [status |-> status, success |-> success, source |-> source]

\* conversation/start: POST
StartSession(req) ==
  IF ~req.jsonOk THEN Response(500, "absent", "error")
  ELSE IF req.crushGender \notin {"boy", "girl"} THEN Response(400, "absent", "error")
  ELSE IF ~req.envKey THEN Response(500, "absent", "configuration_error")
  ELSE Response(200, "absent", "session")

\* part_001: POST.  The key is process.env.GEMINI_API_KEY || a literal, so
\* the route calls upstream with or without the environment's key.
ProcessAudioChunk(req) ==
  IF ~req.jsonOk THEN Response(200, "true", "emergency_fallback")
  ELSE IF req.audioLength < ChunkMinAudioLength THEN Response(200, "false", "canned")
  ELSE IF req.upstream = "text" THEN Response(200, "true", "gemini_api")
  ELSE Response(200, "true", "rizzler_fallback")

\* gemini-live: POST, as process-speech calls it.
GeminiLive(action, upstream) ==
  IF action = "speech_to_text"
  THEN [ok |-> TRUE, transcription |-> IF upstream = "text" THEN "text" ELSE ""]
  ELSE [ok |-> FALSE, transcription |-> ""]

\* process-speech: POST.  Its key is a literal; the environment is not read.
ProcessSpeech(req) ==
  IF ~req.jsonOk THEN Response(200, "true", "emergency_fallback")
  ELSE IF req.audioLength < SpeechMinAudioLength THEN Response(200, "false", "canned")
  ELSE IF req.fastMode
  THEN LET r == GeminiLive("speech_to_text", req.upstream)
       IN  IF r.ok /\ r.transcription # ""
           THEN Response(200, "true", "gemini_fast")
           ELSE Response(200, "true", "fast_fallback")
  ELSE LET r == GeminiLive("live_conversation", req.upstream)
       IN  IF r.ok /\ r.transcription # ""
           THEN Response(200, "true", "gemini_regular")
           ELSE Response(200, "true", "smart_fallback")

HttpInit ==
  /\ fnIn \in Requests
  /\ fnOut = <<>>
  /\ fnOp = "init"

PostStart ==
  /\ fnOp = "init" /\ fnIn.route = "start"
  /\ fnOut' = StartSession(fnIn)
  /\ fnOp' = "start"
  /\ UNCHANGED fnIn
  /\ UNCHANGED nonFnVars

PostAudioChunk ==
  /\ fnOp = "init" /\ fnIn.route = "audioChunk"
  /\ fnOut' = ProcessAudioChunk(fnIn)
  /\ fnOp' = "audioChunk"
  /\ UNCHANGED fnIn
  /\ UNCHANGED nonFnVars

PostProcessSpeech ==
  /\ fnOp = "init" /\ fnIn.route = "processSpeech"
  /\ fnOut' = ProcessSpeech(fnIn)
  /\ fnOp' = "processSpeech"
  /\ UNCHANGED fnIn
  /\ UNCHANGED nonFnVars

HttpNext == PostStart \/ PostAudioChunk \/ PostProcessSpeech

(***************************************************************************)
(* Two connections to the relay.  Every run of the connection callback has *)
(* its own geminiWs, isGeminiConnected, sessionConfigured and              *)
(* conversationContext, its own client socket and its own upstream         *)
(* sockets; sessions[c] holds them for connection c.  Payloads are left    *)
(* out: a handler's sends are the sockets it sent on.                      *)
(***************************************************************************)
Conns == {"A", "B"}
SessionBodies == {"connect", "audio", "text", "other"}
SessionParts == {"audio", "text"}

NewSession ==
  [client |-> "connecting", registered |-> FALSE, geminiWs |-> 0,
   sock |-> [g \in SockIds |-> "none"],
   isGeminiConnected |-> FALSE, sessionConfigured |-> FALSE,
   conversationContext |-> 0,
   readyTimers |-> 0, reconnectTimers |-> 0, textTimers |-> 0, msgs |-> 0]

SessInit ==
  /\ sessions = [c \in Conns |-> NewSession]
  /\ sessionOp = [conn |-> "none", op |-> "init"]
  /\ sessionOut = {}

\* The variables live at module level: one copy for every connection.
SessionWrite_ModuleLevel(c, rec) == [d \in Conns |-> rec]

\* The variables are declared inside the connection callback.
SessionWrite(c, rec) == [sessions EXCEPT ![c] = rec]

ToClient(c, s) == IF s.client = "open" THEN {[conn |-> c, to |-> "client", sock |-> 0]} ELSE {}
ToUpstream(c, s) ==
  IF s.geminiWs # 0 /\ s.sock[s.geminiWs] = "open"
  THEN {[conn |-> c, to |-> "upstream", sock |-> s.geminiWs]} ELSE {}

SessionStep(c, op, rec, out) ==
  /\ sessions' = SessionWrite(c, rec)
  /\ sessionOp' = [conn |-> c, op |-> op]
  /\ sessionOut' = out
  /\ UNCHANGED nonSessVars

SessionConnection(c, key) ==
  LET s == sessions[c] IN
  /\ s.client = "connecting"
  /\ IF ~key
     THEN SessionStep(c, "connection", [s EXCEPT !.client = "closing"],
                      {[conn |-> c, to |-> "client", sock |-> 0]})
     ELSE SessionStep(c, "connection",
                      [s EXCEPT !.client = "open", !.registered = TRUE],
                      {[conn |-> c, to |-> "client", sock |-> 0]})

SessionConnectToGemini(s) ==
  LET n == Cardinality({g \in SockIds : s.sock[g] # "none"})
  IN  [s EXCEPT !.sock[n + 1] = "connecting", !.geminiWs = n + 1]
CanConnectToGemini(s) == Cardinality({g \in SockIds : s.sock[g] # "none"}) < MaxSockets

SessionClientMessage(c, body) ==
  LET s == sessions[c]
      t == [s EXCEPT !.msgs = @ + 1]
      ready == s.isGeminiConnected /\ s.sessionConfigured
  IN
  /\ s.client \in {"open", "closing"}
  /\ s.msgs < MaxSessionMsgs
  /\ IF ~s.registered THEN SessionStep(c, "clientMessage", t, {})
     ELSE CASE body = "connect" ->
                 IF ~s.isGeminiConnected
                 THEN /\ CanConnectToGemini(s)
                      /\ SessionStep(c, "clientMessage", SessionConnectToGemini(t), {})
                 ELSE SessionStep(c, "clientMessage", t, ToClient(c, s))
            [] body = "audio" ->
                 SessionStep(c, "clientMessage", t, IF ready THEN ToUpstream(c, s) ELSE {})
            [] body = "text" ->
                 IF ready
                 THEN SessionStep(c, "clientMessage",
                                  [t EXCEPT !.conversationContext =
                                              Min(@ + 1, ContextLimit)],
                                  ToUpstream(c, s))
                 ELSE SessionStep(c, "clientMessage", t, {})
            [] OTHER -> SessionStep(c, "clientMessage", t, {})

SessionClientClose(c) ==
  LET s == sessions[c] IN
  /\ s.client \in {"open", "closing"}
  /\ SessionStep(c, "clientClose",
                 IF s.registered /\ s.geminiWs # 0 /\ s.isGeminiConnected
                 THEN [s EXCEPT !.client = "closed",
                                !.sock[s.geminiWs] = AfterClose(@)]
                 ELSE [s EXCEPT !.client = "closed"],
                 {})

SessionUpstreamOpen(c, g) ==
  LET s == sessions[c]
      opened == [s EXCEPT !.sock[g] = "open", !.isGeminiConnected = TRUE]
  IN
  /\ s.sock[g] = "connecting"
  /\ IF SendThrows(opened.sock[s.geminiWs])
     THEN SessionStep(c, "upstreamOpen", opened, ToClient(c, s))
     ELSE SessionStep(c, "upstreamOpen",
                      [opened EXCEPT !.sessionConfigured = TRUE, !.readyTimers = @ + 1],
                      ToUpstream(c, opened) \cup ToClient(c, s))

SessionUpstreamMessage(c, g, part) ==
  LET s == sessions[c]
      t == [s EXCEPT !.msgs = @ + 1]
  IN
  /\ s.sock[g] \in {"open", "closing"}
  /\ s.msgs < MaxSessionMsgs
  /\ IF part = "audio"
     THEN SessionStep(c, "upstreamMessage", t, ToClient(c, s))
     ELSE SessionStep(c, "upstreamMessage", [t EXCEPT !.textTimers = @ + 1], {})

SessionUpstreamError(c, g) ==
  LET s == sessions[c] IN
  /\ s.sock[g] \in {"connecting", "open", "aborted"}
  /\ SessionStep(c, "upstreamError",
                 [s EXCEPT !.sock[g] = "errored", !.isGeminiConnected = FALSE], {})

SessionUpstreamClose(c, g, code) ==
  LET s == sessions[c]
      t == [s EXCEPT !.sock[g] = "closed", !.isGeminiConnected = FALSE,
                     !.sessionConfigured = FALSE]
  IN
  /\ code \in CloseCodesOf(s.sock[g])
  /\ IF s.client = "open"
     THEN SessionStep(c, "upstreamClose", [t EXCEPT !.reconnectTimers = @ + 1],
                      ToClient(c, s))
     ELSE SessionStep(c, "upstreamClose", t, {})

SessionTimerFire(c, kind) ==
  LET s == sessions[c] IN
  CASE kind = "ready" ->
         /\ s.readyTimers > 0
         /\ SessionStep(c, "readyTimer", [s EXCEPT !.readyTimers = @ - 1], ToClient(c, s))
    [] kind = "reconnect" ->
         /\ s.reconnectTimers > 0
         /\ CanConnectToGemini(s)
         /\ SessionStep(c, "reconnectTimer",
                        SessionConnectToGemini([s EXCEPT !.reconnectTimers = @ - 1]), {})
    [] kind = "text" ->
         /\ s.textTimers > 0
         /\ SessionStep(c, "textTimer", [s EXCEPT !.textTimers = @ - 1], ToClient(c, s))

SessNext ==
  \E c \in Conns :
    \/ \E key \in BOOLEAN : SessionConnection(c, key)
    \/ \E body \in SessionBodies : SessionClientMessage(c, body)
    \/ SessionClientClose(c)
    \/ \E g \in SockIds : SessionUpstreamOpen(c, g)
    \/ \E g \in SockIds, part \in SessionParts : SessionUpstreamMessage(c, g, part)
    \/ \E g \in SockIds : SessionUpstreamError(c, g)
    \/ \E g \in SockIds, code \in CloseCodes : SessionUpstreamClose(c, g, code)
    \/ \E kind \in {"ready", "reconnect", "text"} : SessionTimerFire(c, kind)

(***************************************************************************)
(* The two specifications.  Each explores one component; the other stays   *)
(* as constructed.                                                         *)
(***************************************************************************)
ClientIdle ==
  /\ variant = "lib"
  /\ this_ws = 0
  /\ this_isConnected = FALSE
  /\ this_isGeminiConnected = FALSE
  /\ this_useEventSource = FALSE
  /\ this_reconnectAttempts = 0
  /\ wsock = [s \in ClientSockIds |-> NoSock]
  /\ reconnectPending = 0
  /\ fetches = [o \in Origins |-> 0]
  /\ fallbackTimers = 0
  /\ connectCalls = 0
  /\ delaysSinceOpen = <<>>
  /\ clientOp = [op |-> "init", arg |-> 0]
  /\ appOut = <<>>
  /\ armed = FALSE

DetIdle == monitor = "instant" /\ DetInit

SessIdle == SessInit
ApiIdle == wsSent = <<>> /\ simTimers = 0

RelayIdle ==
  /\ hasKey = TRUE
  /\ clientState = "connecting"
  /\ handlersRegistered = FALSE
  /\ geminiWs = 0
  /\ sock = [s \in SockIds |-> "none"]
  /\ firstSent = [s \in SockIds |-> "none"]
  /\ isGeminiConnected = FALSE
  /\ sessionConfigured = FALSE
  /\ conversationContext = <<>>
  /\ readyTimers = 0
  /\ reconnectTimers = 0
  /\ textTimers = <<>>
  /\ clientMsgs = 0
  /\ upstreamMsgs = 0
  /\ lastOp = [op |-> "init", arg |-> 0]
  /\ clientOut = <<>>
  /\ upstreamOut = <<>>

Init == RelayInit /\ ClientIdle /\ DetIdle /\ FnIdle /\ SessIdle /\ ApiIdle
Spec == Init /\ [][RelayNext]_vars

\* The event loop runs a timer callback once its delay has passed, and a
\* handshake that stays pending completes: the ready timer and the open
\* callback of each socket are weakly fair.
FairSpec ==
  /\ Init
  /\ [][RelayNext]_vars
  /\ WF_vars(ReadyTimerFire)
  /\ \A s \in SockIds : WF_vars(UpstreamOpen(s))

\* A session that is connected, configured and announced ready, whose
\* context holds the texts accepted so far: texts before the first frame of
\* the run are numbered from -ContextLimit upwards.
InitialContexts ==
  {[j \in 1..len |-> j - ContextLimit - 1] : len \in 0..ContextLimit}

ContextInit ==
  /\ hasKey = TRUE
  /\ clientState = "open"
  /\ handlersRegistered = TRUE
  /\ geminiWs = 1
  /\ sock = [s \in SockIds |-> IF s = 1 THEN "open" ELSE "none"]
  /\ firstSent = [s \in SockIds |-> IF s = 1 THEN "setup" ELSE "none"]
  /\ isGeminiConnected = TRUE
  /\ sessionConfigured = TRUE
  /\ conversationContext \in InitialContexts
  /\ readyTimers = 0
  /\ reconnectTimers = 0
  /\ textTimers = <<>>
  /\ clientMsgs = 0
  /\ upstreamMsgs = 0
  /\ lastOp = [op |-> "readyTimer", arg |-> 0]
  /\ clientOut = <<Event("status", "ready")>>
  /\ upstreamOut = <<>>

ContextNext == \E f \in Frames : ClientMessage(f)
ContextSpecInit == ContextInit /\ ClientIdle /\ DetIdle /\ FnIdle /\ SessIdle /\ ApiIdle
ContextSpec == ContextSpecInit /\ [][ContextNext]_vars

ClientSpecInit == RelayIdle /\ ClientInit /\ DetIdle /\ FnIdle /\ SessIdle /\ ApiIdle
ClientSpec == ClientSpecInit /\ [][ClientNext]_vars

ConnectNext == ClientNext \/ \E s \in ClientSockIds : SocketCloseBeforeOpen(s)

\* A connect timeout fires once its 10 s have passed, the fallback fetch
\* answers, and a socket closed while connecting gets its error event.
ConnectFairSpec ==
  /\ ClientSpecInit
  /\ [][ConnectNext]_vars
  /\ \A s \in ClientSockIds : WF_vars(ConnectTimeout(s))
  /\ WF_vars(\E ok \in BOOLEAN : FallbackResult("connect", ok))
  /\ \A s \in ClientSockIds : WF_vars(wsock[s].state = "failing" /\ SocketError(s))

\* The client of src/lib/websocket-client.js.
ApiSpecInit == ClientSpecInit /\ variant = "lib"
ApiSpec == ApiSpecInit /\ [][ApiNext]_vars

DetectorSpecInit == RelayIdle /\ ClientIdle /\ DetInit /\ FnIdle /\ SessIdle /\ ApiIdle
DetectorSpec == DetectorSpecInit /\ [][DetNext]_vars

PcmSpecInit == RelayIdle /\ ClientIdle /\ DetIdle /\ PcmInit /\ SessIdle /\ ApiIdle
PcmSpec == PcmSpecInit /\ [][PcmNext]_vars

BeliefSpecInit == RelayInit /\ hasKey /\ ClientOnline /\ DetIdle /\ FnIdle /\ SessIdle /\ ApiIdle
BeliefSpec == BeliefSpecInit /\ [][BeliefNext]_vars

HttpSpecInit == RelayIdle /\ ClientIdle /\ DetIdle /\ HttpInit /\ SessIdle /\ ApiIdle
HttpSpec == HttpSpecInit /\ [][HttpNext]_vars

SessionsSpecInit == RelayIdle /\ ClientIdle /\ DetIdle /\ FnIdle /\ SessInit /\ ApiIdle
SessionsSpec == SessionsSpecInit /\ [][SessNext]_vars

FramingSpecInit == RelayIdle /\ ClientIdle /\ DetIdle /\ FramingInit /\ SessIdle /\ ApiIdle
FramingSpec == FramingSpecInit /\ [][FramingNext]_vars

\* The animation frame loop keeps running while it is scheduled and a
\* pending timer fires once its delay has passed.
DetFairSpec ==
  /\ DetectorSpecInit
  /\ [][DetNext]_vars
  /\ WF_vars(\E level \in Levels, c \in BOOLEAN : AnimationFrame(level, c))
  /\ \A kind \in TimerKinds : WF_vars(TimerFire(kind))

(***************************************************************************)
(* Properties of the relay session (specification Spec).                   *)
(***************************************************************************)
LiveSockets == {s \in SockIds : sock[s] \in {"connecting", "open"}}
AudioFrameHandled ==
  handlersRegistered /\ lastOp.op = "clientMessage" /\ lastOp.arg \in {"binary", "audio"}
NoErrorEvent == \A i \in DOMAIN clientOut : clientOut[i].type # "error"

\* C1: an audio frame (a binary frame or a JSON audio message) handled while
\* isGeminiConnected or sessionConfigured is false puts nothing on any
\* upstream socket and sends no error event to the client.
C1_AudioDroppedUntilReady ==
  (lastOp.op = "clientMessage" /\ lastOp.arg \in {"binary", "audio"} /\ ~Ready)
    => (upstreamOut = <<>> /\ NoErrorEvent)

\* The case of C1 that the guard alone decides: an audio frame was handled
\* while the current upstream socket was open and the session not ready.
C1_Witness ==
  /\ AudioFrameHandled
  /\ ~Ready
  /\ geminiWs # 0
  /\ sock[geminiWs] = "open"
  /\ upstreamOut = <<>>

\* C2: at every reachable state at most one upstream connection of the
\* session is connecting or open.
C2_AtMostOneUpstream == Cardinality(LiveSockets) <= 1

\* C3: once the client connection has closed, no step creates an upstream
\* socket: a pending reconnect timer never opens a new connection.
C3_NoConnectAfterClientClose ==
  [][clientState = "closed" => NumSockets' = NumSockets]_vars

\* C4: when the client close handler has run, no upstream connection of the
\* session is left connecting or open.
C4_ClientCloseClosesUpstream ==
  lastOp.op = "clientClose" => LiveSockets = {}

\* C5: on every upstream socket the first message sent is the setup message.
C5_SetupFirst == \A s \in SockIds : firstSent[s] \in {"none", "setup"}

\* A socket has got its setup message and, in the last step, a later
\* audio or text message.
C5_Witness ==
  /\ lastOp.op = "clientMessage"
  /\ upstreamOut # <<>>
  /\ firstSent[upstreamOut[1].sock] = "setup"

\* C6: the reconnect timer is armed only by an upstream close whose code is
\* not the normal closure.
C6_ReconnectOnlyOnAbnormalClose ==
  [][reconnectTimers' > reconnectTimers
       => (lastOp'.op = "upstreamClose" /\ lastOp'.arg # NormalClosure)]_vars

\* C10: without an API key the connection callback sends exactly one error
\* event and closes the client; no status event is ever sent, no message or
\* close handling is registered and no upstream socket is ever created.
C10_MissingKeyFailsSetup ==
  (~hasKey /\ clientState # "connecting")
    => /\ clientState \in {"closing", "closed"}
       /\ ~handlersRegistered
       /\ NumSockets = 0
       /\ upstreamOut = <<>>
       /\ IF lastOp.op = "connection"
          THEN clientOut = <<Event("error", "config")>>
          ELSE clientOut = <<>>

\* Without a key: the callback ran, a frame arrived on the closing
\* connection, and the connection closed.
C10_Witness ==
  /\ ~hasKey
  /\ clientState = "closed"
  /\ clientMsgs > 0

\* C11: when the upstream error handler has run, the session is marked not
\* connected and, the client being open, exactly one error event was sent
\* to the client.
C11_UpstreamErrorReported ==
  (lastOp.op = "upstreamError" /\ clientState = "open")
    => /\ ~isGeminiConnected
       /\ Len(clientOut) = 1
       /\ clientOut[1].type = "error"

\* C12: the state of the client connection changes only in the connection
\* callback and at the client's own close; no upstream event changes it.
C12_UpstreamNeverClosesClient ==
  [][clientState' # clientState => lastOp'.op \in {"connection", "clientClose"}]_vars

\* Each kind of upstream event can leave an open client open: here an
\* error event that cleared the flag of a connected session.
C12_Witness ==
  /\ lastOp.op = "upstreamError"
  /\ sock[lastOp.arg] = "errored"
  /\ sessionConfigured
  /\ clientState = "open"


\* C13: a connect message handled while isGeminiConnected is true opens no
\* upstream socket, leaves the handle, the two flags and the conversation
\* context as they were, sends nothing upstream and sends exactly one status
\* event to the client.
C13_ConnectWhileConnectedIsNoOp ==
  [][(lastOp'.op = "clientMessage" /\ lastOp'.arg = "connect"
        /\ handlersRegistered /\ isGeminiConnected)
       => /\ sock' = sock
          /\ geminiWs' = geminiWs
          /\ isGeminiConnected' /\ sessionConfigured' = sessionConfigured
          /\ conversationContext' = conversationContext
          /\ upstreamOut' = <<>>
          /\ clientOut' = <<Event("status", "already")>>]_vars

\* A connect message answered with the already-connected status.
C13_Witness ==
  /\ lastOp.op = "clientMessage"
  /\ lastOp.arg = "connect"
  /\ clientOut = <<Event("status", "already")>>
  /\ isGeminiConnected

\* C16: a text message handled while isGeminiConnected or sessionConfigured
\* is false sends nothing upstream, leaves the conversation context as it
\* was and sends no error event to the client.
C16_TextDroppedUntilReady ==
  [][(lastOp'.op = "clientMessage" /\ lastOp'.arg = "text" /\ ~Ready)
       => /\ upstreamOut' = <<>>
          /\ conversationContext' = conversationContext
          /\ \A i \in 1..Len(clientOut') : clientOut'[i].type # "error"]_vars

\* A text message dropped while the current upstream socket is open and the
\* session is not ready.
C16_Witness ==
  /\ lastOp.op = "clientMessage"
  /\ lastOp.arg = "text"
  /\ upstreamOut = <<>>
  /\ geminiWs # 0
  /\ sock[geminiWs] = "open"
  /\ ~Ready


\* C14: when a client message is forwarded upstream on the only upstream
\* connection the session ever opened, the ready timer armed by that
\* connection's setup has fired, that is, its ready status was emitted.
C14_NothingForwardedBeforeReadyStatus ==
  (lastOp.op = "clientMessage" /\ upstreamOut # <<>> /\ NumSockets = 1)
    => readyTimers = 0


NoSideClosed ==
  /\ clientState = "open"
  /\ \A s \in SockIds : sock[s] \in {"none", "connecting", "open"}

ReadyDelivered ==
  /\ lastOp.op = "readyTimer"
  /\ clientOut = <<Event("status", "ready")>>
  /\ \E s \in SockIds : firstSent[s] = "setup"

\* C15: with a credential, after a connect message that leaves the current
\* upstream socket connecting, either a side closes its connection or the
\* setup is sent and the ready status is delivered to the client.
C15_EventuallyReady ==
  (lastOp.op = "clientMessage" /\ lastOp.arg = "connect"
     /\ handlersRegistered /\ geminiWs # 0 /\ sock[geminiWs] = "connecting")
    ~> (ReadyDelivered \/ ~NoSideClosed)

\* The ready status delivered while neither side has closed.
C15_Witness == ReadyDelivered /\ NoSideClosed


\* A textual client frame that is not valid JSON or whose type is unknown,
\* and an upstream frame that is not valid JSON or carries neither parts nor
\* an error.
MalformedFrames == {f \in Frames : ~f.binary /\ f.body \in {"invalid", "other"}}
MalformedUpstream == {m \in UpstreamMessages : ~m.valid \/ (m.parts = <<>> /\ ~m.error)}

SessionState ==
  <<geminiWs, isGeminiConnected, sessionConfigured, conversationContext,
    readyTimers, reconnectTimers, textTimers, firstSent>>

Dropped ==
  /\ SessionState' = SessionState
  /\ clientOut' = <<>>
  /\ upstreamOut' = <<>>
  /\ sock' = sock
  /\ clientState' = clientState

\* C17: handling a malformed message from either side changes no session
\* state, sends nothing to the client or upstream, and leaves the state of
\* both connections as it was.
C17_MalformedDropped ==
  [][/\ \A f \in MalformedFrames : ClientMessage(f) => Dropped
     /\ \A s \in SockIds : \A m \in MalformedUpstream :
          UpstreamMessage(s, m) => Dropped]_vars


\* The events that part i of upstream message k gave rise to: audio events
\* sent in the handling step and text_display events handed to a timer.
EventsOfPart(k, i) ==
  Cardinality({j \in 1..Len(clientOut) :
                 clientOut[j].type = "audio" /\ clientOut[j].data = <<k, i>>})
  + Cardinality({j \in 1..Len(textTimers) : textTimers[j].data = <<k, i>>})

\* C18: when an upstream response message has been handled while the client
\* is open, each content part gave rise to exactly one client event (sent, or
\* scheduled in the case of text).
C18_OneEventPerPart ==
  (lastOp.op = "upstreamMessage" /\ lastOp.arg.valid /\ clientState = "open")
    => \A i \in 1..Len(lastOp.arg.parts) : EventsOfPart(upstreamMsgs, i) = 1


TextAndAudio == {<<"text", "audio">>, <<"audio", "text">>}
OfType(out, type) == {j \in 1..Len(out) : out[j].type = type}
\* Part a of one message arrived before part b of the same or a later one.
Before(a, b) == a[1] < b[1] \/ (a[1] = b[1] /\ a[2] < b[2])

\* C19: the step that handles an upstream message with one text part and one
\* audio part, in either order, while the client is open sends exactly one
\* audio event and no text_display event and leaves exactly one text_display
\* event of that message waiting; a text_display event is emitted only by a
\* text timer, one at a time, and every emitted one arrived before all those
\* still waiting.
C19_AudioFirstTextInOrder ==
  [][/\ (lastOp'.op = "upstreamMessage" /\ clientState = "open"
          /\ lastOp'.arg.parts \in TextAndAudio)
         => /\ Cardinality(OfType(clientOut', "audio")) = 1
            /\ OfType(clientOut', "text_display") = {}
            /\ Cardinality({j \in 1..Len(textTimers') :
                               textTimers'[j].data[1] = upstreamMsgs'}) = 1
     /\ OfType(clientOut', "text_display") # {}
         => /\ lastOp'.op = "textTimer"
            /\ Len(clientOut') = 1
            /\ clientOut'[1] = Head(textTimers)
            /\ textTimers' = Tail(textTimers)
            /\ \A j \in 1..Len(textTimers') :
                 Before(clientOut'[1].data, textTimers'[j].data)]_vars

\* The second message, text part before audio part, handled while the text
\* of the first message is still waiting: its audio event is out, the two
\* text events wait in arrival order.
C19_Witness ==
  /\ lastOp.op = "upstreamMessage"
  /\ lastOp.arg.parts = <<"text", "audio">>
  /\ clientOut = <<Event("audio", <<2, 2>>)>>
  /\ Len(textTimers) = 2
  /\ textTimers[2] = Event("text_display", <<2, 1>>)


\* C20: the conversation context never holds more than ContextLimit entries;
\* a text message handled on a ready session puts its text last in the
\* context, before it the latest entries of the former context in their
\* order, as many as fit, and the turns sent upstream are that context.
C20_RollingContext ==
  [][/\ Len(conversationContext') <= ContextLimit
     /\ (lastOp'.op = "clientMessage" /\ lastOp'.arg = "text" /\ Ready)
          => LET old == conversationContext
                 new == conversationContext'
                 kept == Len(new) - 1
             IN /\ Len(new) = IF Len(old) < ContextLimit THEN Len(old) + 1
                                                           ELSE ContextLimit
                /\ new[Len(new)] = clientMsgs'
                /\ \A j \in 1..kept : new[j] = old[Len(old) - kept + j]
                /\ sock[geminiWs] = "open"
                     => upstreamOut' = <<[sock |-> geminiWs, msg |-> ClientContent(new)]>>]_vars

\* A text forwarded with a full context from which the oldest text has been
\* removed.
C20_Witness ==
  /\ lastOp.op = "clientMessage"
  /\ lastOp.arg = "text"
  /\ Len(conversationContext) = ContextLimit
  /\ conversationContext[1] > -ContextLimit
  /\ conversationContext[ContextLimit] = clientMsgs
  /\ upstreamOut = <<[sock |-> 1, msg |-> ClientContent(conversationContext)]>>


\* C21: a realtime_input envelope goes upstream only in the step that handles
\* an audio frame on a ready session, one envelope in that step, and it
\* carries the payload of the frame being handled; frame numbers grow with
\* arrival, so no frame is sent twice, out of order, or after its own step.
C21_NoReplay ==
  [][\A j \in 1..Len(upstreamOut') :
       upstreamOut'[j].msg.kind = "realtime_input"
         => /\ lastOp'.op = "clientMessage"
            /\ lastOp'.arg \in {"binary", "audio"}
            /\ Ready
            /\ Len(upstreamOut') = 1
            /\ clientMsgs' = clientMsgs + 1
            /\ upstreamOut'[j].msg.data = <<clientMsgs'>>]_vars

\* The third frame forwarded as its own envelope on the current socket.
C21_Witness ==
  /\ AudioFrameHandled
  /\ clientMsgs = 3
  /\ upstreamOut = <<[sock |-> geminiWs, msg |-> RealtimeInput(3)]>>


\* C22: with a credential, nothing is sent to the client before the
\* connection callback runs, and the first event that callback sends is the
\* initial status.
C22_InitialStatusFirst ==
  [][(hasKey /\ clientState = "connecting")
       => IF lastOp'.op = "connection"
          THEN /\ clientOut' # <<>>
               /\ clientOut'[1].type = "status"
               /\ clientOut'[1].data = "initial"
          ELSE clientOut' = <<>>]_vars

\* The initial status sent on a connection accepted with a credential.
C22_Witness ==
  /\ hasKey
  /\ lastOp.op = "connection"
  /\ clientState = "open"
  /\ clientOut = <<Event("status", "initial")>>


\* C28: a client frame is forwarded upstream as raw audio only if it is a
\* binary frame longer than 100 bytes; a text frame, whatever its length, is
\* never forwarded as raw audio.
C28_OnlyBinaryForwardedRaw ==
  [][\A f \in Frames :
       (ClientMessage(f) /\ lastOp'.arg = "binary" /\ upstreamOut' # <<>>)
         => (f.binary /\ f.length > MinBinaryLength)]_vars

\* C36: in every reachable state of a relay session sessionConfigured
\* implies isGeminiConnected, and a handler of an upstream socket that
\* geminiWs no longer references changes neither flag.
C36_FlagsDescribeCurrentUpstream ==
  [][/\ sessionConfigured' => isGeminiConnected'
     /\ (lastOp'.op \in {"upstreamOpen", "upstreamError", "upstreamClose"}
          /\ \E s \in SockIds : s # geminiWs /\ sock'[s] # sock[s])
         => UNCHANGED <<isGeminiConnected, sessionConfigured>>]_vars

(***************************************************************************)
(* Properties of LiveChatClient (specification ClientSpec).                *)
(***************************************************************************)
FixedDelays ==
  \A i, j \in DOMAIN delaysSinceOpen : delaysSinceOpen[i] = delaysSinceOpen[j]
IncreasingDelays ==
  \A i, j \in DOMAIN delaysSinceOpen : i < j => delaysSinceOpen[i] < delaysSinceOpen[j]

\* C7: a reconnect timer is armed only by a close whose code is not 1000
\* and only while reconnectAttempts was below maxReconnectAttempts, so at
\* most maxReconnectAttempts reconnects are armed between two opens; their
\* delays are all equal (lib) or strictly increasing (part_002).
C7_BoundedReconnect ==
  /\ armed => (clientOp.op = "close" /\ clientOp.arg # NormalClosure)
  /\ this_reconnectAttempts <= maxReconnectAttempts
  /\ Len(delaysSinceOpen) <= maxReconnectAttempts
  /\ variant = "lib" => FixedDelays
  /\ variant = "part002" => IncreasingDelays

\* The budget of part_002 is used up: its last reconnect was armed, with
\* five delays behind it, and the close that followed armed nothing.
C7_Witness ==
  /\ variant = "part002"
  /\ Len(delaysSinceOpen) = maxReconnectAttempts
  /\ clientOp.op = "close"
  /\ clientOp.arg # NormalClosure
  /\ ~armed

\* C8: after a successful open, of the first socket or of a reconnect,
\* reconnectAttempts is 0.
C8_OpenResetsAttempts ==
  clientOp.op = "open" => this_reconnectAttempts = 0

\* A socket created by the reconnect timer has just opened.
C8_Witness ==
  /\ clientOp.op = "open"
  /\ wsock[clientOp.arg].origin = "reconnect"
  /\ wsock[clientOp.arg].state = "open"

\* The budget is used up and every attempt has failed: no socket is left,
\* no reconnect timer is pending, and connect() itself waits for nothing.
BudgetExhausted ==
  /\ this_reconnectAttempts = maxReconnectAttempts
  /\ reconnectPending = 0
  /\ \A s \in ClientSockIds : wsock[s].state \in {"none", "closed"}
  /\ fetches["connect"] = 0

\* C9: once the budget is exhausted and the last attempt has failed, the
\* client stays not connected and creates no socket until connect() is
\* called again.
C9_ExhaustionIsTerminal ==
  [][(BudgetExhausted /\ ~this_isConnected /\ clientOp'.op # "connect")
       => (~this_isConnected' /\ NumClientSockets' = NumClientSockets)]_vars

\* disconnect() has returned and no WebSocket was created since: disconnect
\* alone sets this.ws to null, and connect() gives it a socket before
\* anything else runs.
DisconnectReturned == this_ws = 0 /\ connectCalls > 0

\* C31: after disconnect() has returned, until connect() is called again,
\* no step creates a new WebSocket or sets isConnected or isGeminiConnected
\* to true.
C31_StaysDisconnected ==
  [][(DisconnectReturned /\ clientOp'.op # "connect")
       => (this_ws' = 0 /\ ~this_isConnected' /\ ~this_isGeminiConnected')]_vars

\* C32: in every reachable state of LiveChatClient, isGeminiConnected
\* implies isConnected.
C32_GeminiImpliesConnected == this_isGeminiConnected => this_isConnected

\* C33: LiveChatClient is in one transport mode at a time: useEventSource
\* is never true while a WebSocket of the client is open.
C33_OneTransportMode ==
  ~(this_useEventSource /\ \E s \in ClientSockIds : wsock[s].state = "open")

\* C34: connect() always settles: whatever the socket does (open, error,
\* close with no error before it, no event until the timeout) and whatever
\* the fallback fetch answers, its promise eventually resolves or rejects.
C34_ConnectSettles == (clientOp.op = "connect") ~> ~ConnectPending

\* C35: sendAudio and sendText put nothing on the socket and report no
\* error unless isConnected and isGeminiConnected are both true; send puts
\* nothing on it unless isConnected is true; connectToGemini throws without
\* sending while isConnected is false; so a method of the client transmits
\* only while isConnected is true.
C35_NothingSentUnlessConnected ==
  [][/\ (clientOp'.op \in {"sendAudio", "sendText"}
          /\ (~this_isConnected \/ ~this_isGeminiConnected))
         => (wsSent' = <<>> /\ appOut' = <<>>)
     /\ (clientOp'.op = "send" /\ ~this_isConnected) => wsSent' = <<>>
     /\ (clientOp'.op = "connectToGemini" /\ ~this_isConnected)
         => (wsSent' = <<>> /\ appOut' = <<"throws">>)
     /\ (clientOp'.op \in {"sendAudio", "sendText", "send", "connectToGemini"}
          /\ wsSent' # <<>>)
         => this_isConnected]_vars

\* sendAudio called on an open socket before any ready status: dropped.
C35_Witness ==
  /\ clientOp.op = "sendAudio"
  /\ this_isConnected /\ ~this_isGeminiConnected /\ ~this_useEventSource
  /\ this_ws # 0 /\ wsock[this_ws].state = "open"
  /\ wsSent = <<>> /\ appOut = <<>>

C24_SilenceEndsSpeech ==
  (monitor = "instant" /\ speechDetected /\ monitoringRef /\ quietRun >= 1)
    ~> \/ ~speechDetected /\ ~isStreamingRef
       \/ quietRun = 0
       \/ ~monitoringRef

\* C39: in the speech monitors silenceTimeoutRef.current is non-null exactly
\* when the timer it names is pending.
C39_RefNamesPendingTimer == silenceTimeoutRef <=> silenceTimerPending

C26_FramingRoundTrip ==
  /\ fnOp = "audio"
       => /\ fnOut.samples = fnIn
          /\ fnOut.values = [i \in 1..Len(fnIn) |-> <<fnIn[i], FullScale>>]
  /\ fnOp = "playAudioResponse"
       => fnOut.values = [i \in 1..Len(fnIn) |-> <<fnIn[i], FullScale>>]

\* Two samples, the lowest one and one whose low byte is 255, relayed.
C26_Witness ==
  /\ fnOp = "audio"
  /\ fnIn = <<-FullScale, 255>>
  /\ fnOut.samples = <<-FullScale, 255>>

(***************************************************************************)
(* Properties of two connections                                           *)
(***************************************************************************)
\* C27: with two client connections, a handler of one connection leaves the
\* other connection's flags, upstream handle, context, sockets and timers
\* as they were and sends on no socket of the other connection.
C27_SessionsIsolated ==
  [][\A c \in Conns :
       sessionOp'.conn = c
         => /\ \A d \in Conns \ {c} : sessions'[d] = sessions[d]
            /\ \A m \in sessionOut' : m.conn = c]_vars

\* Both sessions ready, A having recorded a text, and B's handler just sent
\* an audio frame upstream.
C27_Witness ==
  /\ sessions["A"].isGeminiConnected /\ sessions["A"].sessionConfigured
  /\ sessions["A"].conversationContext = 1
  /\ sessions["B"].isGeminiConnected /\ sessions["B"].sessionConfigured
  /\ sessions["B"].conversationContext = 0
  /\ sessionOp = [conn |-> "B", op |-> "clientMessage"]
  /\ sessionOut = {[conn |-> "B", to |-> "upstream", sock |-> 1]}

(***************************************************************************)
(* Properties of the HTTP routes                                           *)
(***************************************************************************)
\* A request whose body parses and passes the route's validation.
WellFormed(req) ==
  /\ req.jsonOk
  /\ req.crushGender \in {"boy", "girl"}
  /\ req.audioLength >= ChunkMinAudioLength

\* C29: when GEMINI_API_KEY is not set in the process environment, the
\* response to a well-formed request of session start, of audio-chunk
\* processing and of speech processing is an explicit configuration error,
\* never a success.
C29_NoKeyFails ==
  (fnOp \in Routes /\ ~fnIn.envKey /\ WellFormed(fnIn))
    => /\ fnOut.source = "configuration_error"
       /\ fnOut.status >= 400
       /\ fnOut.success # "true"

\* C38: every action process-speech sends to gemini-live is one gemini-live
\* handles: in regular mode, as in fast mode, an upstream call that returns
\* a transcription yields the source of that mode, not the fallback.
C38_RegularModeReachesGemini ==
  (/\ fnOp = "processSpeech"
   /\ fnIn.jsonOk
   /\ fnIn.audioLength >= SpeechMinAudioLength
   /\ fnIn.upstream = "text")
    => fnOut.source = IF fnIn.fastMode THEN "gemini_fast" ELSE "gemini_regular"

(***************************************************************************)
(* Properties of the relay with its client                                 *)
(***************************************************************************)
\* C30: in WebSocket mode, once every event the relay sent has been handled
\* by the client, the client holds isGeminiConnected only while the relay
\* session it is connected to has isGeminiConnected and sessionConfigured.
C30_BeliefMatchesRelay ==
  (/\ clientOut = <<>>
   /\ clientState = "open"
   /\ this_isConnected /\ ~this_useEventSource
   /\ this_isGeminiConnected)
    => (isGeminiConnected /\ sessionConfigured)

\* C37: every event the relay delivers is dispatched by handleMessage to
\* an application callback, and every message type a client class sends
\* selects a case of the relay's switch.
C37_VocabularyAgrees ==
  [][/\ clientOp'.op = "message" => appOut' # <<>>
     /\ \A type \in MessageTypes : DispatchCase(type) # "none"]_vars

====
